---------------------------- MODULE Spec2Model ----------------------------
(***************************************************************************)
(* Verification model of starlark-go-bazel.                                *)
(*                                                                         *)
(*   LoaderSpec  - loader.BzlFileLoader: Load / loadFile / ClearCache run  *)
(*                 by concurrent goroutines (src/loader/loader.go).        *)
(*   EvalSpec    - eval.Evaluator without a BzlLoader: the fallback load   *)
(*                 function of makeLoadFunc (src/unnamed/part_007).        *)
(*   DepsetSpec  - types.Depset: NewDepset, DepsetUnion and ToList         *)
(*                 (src/unnamed/part_009).                                 *)
(*                                                                         *)
(* Go strings are sequences of one-character strings, so that prefix,      *)
(* suffix and index computations are carried out as the code does them.    *)
(***************************************************************************)
EXTENDS Integers, Sequences, FiniteSets, TLC

VARIABLES
    cache,      \* BzlFileLoader.cache: canonical label -> loadEntry (its address)
    entries,    \* the loadEntry objects ever allocated, by address 1..Len(entries)
    frames,     \* per goroutine: the active Load calls, outermost first
    ret,        \* per goroutine: record of the Load call that returned last
    calls,      \* number of top-level Load calls made so far
    cancelled,  \* per goroutine: starlark.Thread.Cancel was called on its thread
    clears,     \* number of ClearCache calls so far
    dirty,      \* per goroutine: ClearCache ran during its current top-level call
    ecache,     \* Evaluator.cache: module string -> CachedModule
    estack,     \* Evaluator: the active makeLoadFunc calls, outermost first
    eresult,    \* Evaluator: outcome of the last EvalBzlFile
    evals,      \* number of EvalBzlFile calls made so far
    pool,       \* the depsets constructed so far
    lastNew,    \* what the last depset construction returned, if it was the last call
    lastList,   \* what the last ToList returned, if it was the last call
    providers,  \* the providers created so far, in creation order
    instances,  \* the provider instances created so far
    lastCall,   \* what the last provider or constructor call returned
    ruleClasses, \* the rule classes created so far, in creation order
    bzlGlobals, \* the globals the last EvalBzl returned
    build,      \* the BUILD evaluation: its phase and the thread's target map
    lastRule,   \* what the last rule call or registration returned
    pkgTargets, \* Package.Targets
    ctxRules,   \* PackageContext.Rules
    views,      \* the views existing_rules() has returned, in call order
    lastAdd,    \* what the last registration in the package did
    lastView,   \* what existing_rule() returned, if it was the last call
    parsed,     \* what the label parses made so far returned, in call order
    trip,       \* a parsed label, its rendering and the parse of the rendering
    files,      \* the files of the file system, by absolute path
    globs,      \* number of glob() and subpackages() calls made so far
    lastGlob,   \* what the last glob() or subpackages() call returned
    declared,   \* Actions.declared: the log of the declared actions
    frozen,     \* Ctx.frozen and Actions.frozen
    lastOp      \* the last operation on the ctx or its actions factory

vars == <<cache, entries, frames, ret, calls, cancelled, clears, dirty,
          ecache, estack, eresult, evals, pool, lastNew, lastList,
          providers, instances, lastCall,
          ruleClasses, bzlGlobals, build, lastRule,
          pkgTargets, ctxRules, views, lastAdd, lastView,
          parsed, trip, files, globs, lastGlob,
          declared, frozen, lastOp>>

loaderVars == <<cache, entries, frames, ret, calls, cancelled, clears, dirty>>
evalVars   == <<ecache, estack, eresult, evals>>
depsetVars == <<pool, lastNew, lastList>>
providerVars == <<providers, instances, lastCall>>

\* The state of the components that the loader, the evaluator and the depsets
\* do not touch.
ruleVars == <<ruleClasses, bzlGlobals, build, lastRule>>
nativeVars == <<pkgTargets, ctxRules, views, lastAdd, lastView>>
labelVars == <<parsed, trip>>
globVars == <<files, globs, lastGlob>>
actionVars == <<declared, frozen, lastOp>>
restVars ==
    <<providerVars, ruleVars, nativeVars, labelVars, globVars, actionVars>>

\* The state a provider, rule or package operation leaves alone.
notProviderVars ==
    <<loaderVars, evalVars, depsetVars, ruleVars, nativeVars, labelVars,
      globVars, actionVars>>
notRuleVars ==
    <<loaderVars, evalVars, depsetVars, providerVars, nativeVars, labelVars,
      globVars, actionVars>>
notNativeVars ==
    <<loaderVars, evalVars, depsetVars, providerVars, ruleVars, labelVars,
      globVars, actionVars>>
notLabelVars ==
    <<loaderVars, evalVars, depsetVars, providerVars, ruleVars, nativeVars,
      globVars, actionVars>>
notGlobVars ==
    <<loaderVars, evalVars, depsetVars, providerVars, ruleVars, nativeVars,
      labelVars, actionVars>>
notActionVars ==
    <<loaderVars, evalVars, depsetVars, providerVars, ruleVars, nativeVars,
      labelVars, globVars>>

---------------------------------------------------------------------------
(* Bounds of the model.                                                    *)

MaxCalls  == 2   \* top-level Load calls per run
MaxClears == 1   \* ClearCache calls per run
MaxEvals  == 3   \* EvalBzlFile calls on one Evaluator
MaxDepth  == 5   \* nested ExecFile calls the goroutine's stack has room for
MaxTransitive == 2   \* transitive depsets passed to one depset construction
MaxDepsets    == 3   \* depsets constructed in one run

Threads == {"g1", "g2"}

---------------------------------------------------------------------------
(* Go string operations, on sequences of characters.                       *)

\* strings.HasPrefix
HasPrefix(s, p) ==
    /\ Len(p) <= Len(s)
    /\ SubSeq(s, 1, Len(p)) = p

\* strings.HasSuffix
HasSuffix(s, p) ==
    /\ Len(p) <= Len(s)
    /\ SubSeq(s, Len(s) - Len(p) + 1, Len(s)) = p

\* Whether sub occurs in s at position i (1-based).
OccursAt(s, sub, i) ==
    /\ i + Len(sub) - 1 <= Len(s)
    /\ SubSeq(s, i, i + Len(sub) - 1) = sub

\* strings.Index, 0-based as in Go; -1 when sub does not occur.
Index(s, sub) ==
    IF \E i \in 1..Len(s) : OccursAt(s, sub, i)
    THEN (CHOOSE i \in 1..Len(s) :
             /\ OccursAt(s, sub, i)
             /\ \A j \in 1..(i - 1) : ~OccursAt(s, sub, j)) - 1
    ELSE -1

\* strings.LastIndex, 0-based as in Go; -1 when sub does not occur.
LastIndex(s, sub) ==
    IF \E i \in 1..Len(s) : OccursAt(s, sub, i)
    THEN (CHOOSE i \in 1..Len(s) :
             /\ OccursAt(s, sub, i)
             /\ \A j \in (i + 1)..Len(s) : ~OccursAt(s, sub, j)) - 1
    ELSE -1

\* The Go slice expressions s[lo:hi] and s[lo:], with 0-based bounds.
Slice(s, lo, hi) == SubSeq(s, lo + 1, hi)
SliceFrom(s, lo) == SubSeq(s, lo + 1, Len(s))

\* Whether x is an element of the slice s.
Contains(s, x) == \E i \in 1..Len(s) : s[i] = x

EmptyStr == << >>
Slashes  == <<"/", "/">>
Colon    == <<":">>
At       == <<"@">>
DotBzl   == <<".", "b", "z", "l">>
DotScl   == <<".", "s", "c", "l">>
MainRepo == <<"m", "a", "i", "n">>


---------------------------------------------------------------------------
(* The loader's configuration and file system.                             *)

\* BzlFileLoader.repoRoot and BzlFileLoader.repoMapping.
RepoRoot    == <<"w">>
RepoMapping == [r \in {<<"e">>} |-> <<"x">>]

\* Module strings used by load() statements and by top-level callers.
ModA     == <<"/", "/", ":", "a", ".", "b", "z", "l">>       \* //:a.bzl
ModB     == <<"/", "/", ":", "b", ".", "b", "z", "l">>       \* //:b.bzl
RelB     == <<":", "b", ".", "b", "z", "l">>                 \* :b.bzl
ModC     == <<"/", "/", ":", "c", ".", "b", "z", "l">>       \* //:c.bzl
ModD     == <<"/", "/", "p", ":", "d", ".", "b", "z", "l">>  \* //p:d.bzl
LegacyE  == <<"e", ".", "b", "z", "l">>                      \* e.bzl
ExtF     == <<"@", "e", "/", "/", ":", "f", ".", "s", "c", "l">>  \* @e//:f.scl
NoSlash  == <<"@", "e", ":", "f", ".", "b", "z", "l">>       \* @e:f.bzl
NoColon  == <<"/", "/", "a", ".", "b", "z", "l">>            \* //a.bzl
BadExt   == <<"/", "/", ":", "a", ".", "t", "x", "t">>       \* //:a.txt
UnkRepo  == <<"@", "u", "/", "/", ":", "a", ".", "b", "z", "l">>  \* @u//:a.bzl

\* The files of the file system: path, the module strings of the file's
\* load() statements in order, and whether the statements after them fail.
FileTable ==
    { [path  |-> <<"w", "/", "a", ".", "b", "z", "l">>,
       loads |-> <<RelB>>, fails |-> FALSE],
      [path  |-> <<"w", "/", "b", ".", "b", "z", "l">>,
       loads |-> <<ModA>>, fails |-> FALSE],
      [path  |-> <<"w", "/", "c", ".", "b", "z", "l">>,
       loads |-> <<ModD>>, fails |-> FALSE],
      [path  |-> <<"w", "/", "p", "/", "d", ".", "b", "z", "l">>,
       loads |-> << >>, fails |-> FALSE],
      [path  |-> <<"w", "/", "e", ".", "b", "z", "l">>,
       loads |-> << >>, fails |-> TRUE] }

\* The module strings a top-level caller passes to Load.  ExtF names a file
\* that does not exist in the mapped repository.
TopModules ==
    { ModA, ModB, ModC, ModD, LegacyE, ExtF, NoSlash, NoColon, BadExt, UnkRepo }

\* MemoryFileSystem.ReadFile: the file at path, or a not-exist error.
ReadFile(path) ==
    IF \E f \in FileTable : f.path = path
    THEN [ok |-> TRUE, file |-> CHOOSE f \in FileTable : f.path = path]
    ELSE [ok |-> FALSE, file |-> [path |-> path, loads |-> << >>, fails |-> FALSE]]

\* filepath.Join on elements that need no cleaning: the non-empty elements
\* separated by "/".
RECURSIVE Join(_)
Join(elems) ==
    IF elems = << >> THEN EmptyStr
    ELSE LET tl == Join(Tail(elems)) IN
         IF Head(elems) = EmptyStr THEN tl
         ELSE IF tl = EmptyStr THEN Head(elems)
         ELSE Head(elems) \o <<"/">> \o tl

---------------------------------------------------------------------------
(* Errors and results.                                                     *)

\* A Go error value: its kind, the string it quotes, the load stack it
\* carries (CycleError.Stack) and the error it wraps (%w), if any.
Err(kind, text, stack, cause) ==
    [kind |-> kind, text |-> text, stack |-> stack, cause |-> cause]

NoErr == Err("nil", EmptyStr, << >>, << >>)

\* The StringDict produced by one execution of the module at label.
Globals(label, exec) == [label |-> label, exec |-> exec]
NoGlobals == Globals(EmptyStr, 0)

\* The pair a Go function returns.
Outcome(g, e) == [globals |-> g, err |-> e]
NoOutcome == Outcome(NoGlobals, NoErr)

\* CycleError{Module: module, Stack: append(loadStack, label)}
CycleError(module, loadStack, label) ==
    Err("cycle", module, Append(loadStack, label), << >>)

\* Whether err is, or wraps, a CycleError (errors.As).
RECURSIVE IsCycleError(_)
IsCycleError(err) ==
    \/ err.kind = "cycle"
    \/ /\ err.cause # << >>
       /\ IsCycleError(err.cause[1])

\* The CycleError that err is or wraps.
RECURSIVE AsCycleError(_)
AsCycleError(err) ==
    IF err.kind = "cycle" \/ err.cause = << >> THEN err
    ELSE AsCycleError(err.cause[1])

---------------------------------------------------------------------------
(* BzlFileLoader.resolveModule                                             *)

\* splitPkgTarget
splitPkgTarget(s) ==
    LET idx == LastIndex(s, Colon) IN
    IF idx = -1
    THEN [pkg |-> EmptyStr, target |-> EmptyStr,
          err |-> Err("missing colon", s, << >>, << >>)]
    ELSE [pkg |-> Slice(s, 0, idx), target |-> SliceFrom(s, idx + 1),
          err |-> NoErr]

\* The switch of resolveModule: repo, pkg and file of the module string.
\* (sp ranges over the one value returned by splitPkgTarget.)
moduleParts(currentPkg, currentRepo, module) ==
    IF HasPrefix(module, At)
    THEN IF Index(module, Slashes) = -1
         THEN [repo |-> EmptyStr, pkg |-> EmptyStr, file |-> EmptyStr,
               err |-> Err("missing //", module, << >>, << >>)]
         ELSE CHOOSE parts \in
                  { [repo |-> Slice(module, 1, idx), pkg |-> sp.pkg,
                     file |-> sp.target, err |-> sp.err] :
                    <<idx, sp>> \in
                        { <<i, splitPkgTarget(SliceFrom(module, i + 2))>> :
                          i \in {Index(module, Slashes)} } } : TRUE
    ELSE IF HasPrefix(module, Slashes)
    THEN CHOOSE parts \in
             { [repo |-> currentRepo, pkg |-> sp.pkg, file |-> sp.target,
                err |-> sp.err] :
               sp \in {splitPkgTarget(SliceFrom(module, 2))} } : TRUE
    ELSE IF HasPrefix(module, Colon)
    THEN [repo |-> currentRepo, pkg |-> currentPkg,
          file |-> SliceFrom(module, 1), err |-> NoErr]
    ELSE [repo |-> currentRepo, pkg |-> currentPkg, file |-> module,
          err |-> NoErr]

\* The canonical label built by resolveModule.
canonicalLabel(repo, pkg, file) ==
    IF repo # EmptyStr
    THEN At \o repo \o Slashes \o pkg \o Colon \o file
    ELSE Slashes \o pkg \o Colon \o file

\* resolveModule after the switch, on the parts p of the module string: the
\* extension check, the repository root, the label and the path.
resolveParts(p) ==
    LET fail(e) == [label |-> EmptyStr, path |-> EmptyStr, err |-> e] IN
    IF p.err # NoErr THEN fail(p.err)
    ELSE IF ~HasSuffix(p.file, DotBzl) /\ ~HasSuffix(p.file, DotScl)
    THEN fail(Err("extension", p.file, << >>, << >>))
    ELSE IF p.repo # EmptyStr /\ p.repo \notin DOMAIN RepoMapping
            /\ p.repo # MainRepo
    THEN fail(Err("unknown repository", p.repo, << >>, << >>))
    ELSE LET root == IF p.repo # EmptyStr /\ p.repo \in DOMAIN RepoMapping
                     THEN RepoMapping[p.repo] ELSE RepoRoot
         IN [label |-> canonicalLabel(p.repo, p.pkg, p.file),
             path  |-> Join(<<root, p.pkg, p.file>>),
             err   |-> NoErr]

\* resolveModule: the canonical label and the file system path, or an error.
resolveModule(currentPkg, currentRepo, module) ==
    CHOOSE r \in { resolveParts(p) :
                   p \in {moduleParts(currentPkg, currentRepo, module)} } : TRUE

\* loadFile: the package of the child thread, extracted from the label.
labelPkg(label) ==
    LET idx == Index(label, Slashes) IN
    IF idx = -1 THEN EmptyStr
    ELSE LET rest     == SliceFrom(label, idx + 2)
             colonIdx == LastIndex(rest, Colon)
         IN IF colonIdx = -1 THEN EmptyStr ELSE Slice(rest, 0, colonIdx)

\* loadFile: the repository of the child thread, extracted from the label.
labelRepo(label) ==
    IF HasPrefix(label, At) /\ Index(label, Slashes) # -1
    THEN Slice(label, 1, Index(label, Slashes))
    ELSE EmptyStr


---------------------------------------------------------------------------
(* BzlFileLoader.Load, loadFile and ClearCache.                            *)

\* &loadEntry{ready: make(chan struct{})}.  Two fields are not read by the
\* code: stored counts the fields the initializing caller has written, and
\* cleared tells that a ClearCache has removed the entry from the cache.
NewEntry(label) ==
    [label |-> label, globals |-> NoGlobals, err |-> NoErr, ready |-> FALSE,
     stored |-> 0, cleared |-> FALSE]

\* An active call of Load.  pc is the place the call has reached:
\*   "exec"          in loadFile, executing the module (line 454)
\*   "storeGlobals"  before entry.globals = globals      (line 300)
\*   "storeErr"      before entry.err = loadErr          (line 301)
\*   "close"         before close(entry.ready)           (line 302)
\*   "wait"          before <-entry.ready                (line 306)
\* stack is the load stack of the thread the call was made on, rest the
\* load() statements the module has yet to execute, out what loadFile
\* returned, and blocked whether the entry found was still in progress.
Frame(module, label, stack, entry, pc, rest, fails, out, blocked) ==
    [module |-> module, label |-> label, stack |-> stack, entry |-> entry,
     pc |-> pc, rest |-> rest, fails |-> fails, out |-> out,
     blocked |-> blocked]

\* The record of a Load call that has returned: how it ended ("resolve",
\* "cycle", "init" or "hit"), what it returned, the entry it used with the
\* entry's contents at the return, what loadFile had returned to it, whether
\* it had to wait, whether a ClearCache ran during the top-level call it
\* belongs to, and the contents of the entry the cache held for the label at
\* the return.
Ret(t, kind, module, label, stack, entry, outcome, computed, waited) ==
    [kind |-> kind, module |-> module, label |-> label, stack |-> stack,
     entry |-> entry, outcome |-> outcome, computed |-> computed,
     waited |-> waited, dirty |-> dirty[t],
     snap |-> IF entry = 0 THEN NewEntry(EmptyStr) ELSE entries[entry],
     cached |-> IF label \in DOMAIN cache THEN entries[cache[label]]
                ELSE NewEntry(EmptyStr)]

NoRet ==
    [kind |-> "none", module |-> EmptyStr, label |-> EmptyStr,
     stack |-> << >>, entry |-> 0, outcome |-> NoOutcome,
     computed |-> NoOutcome, waited |-> FALSE, dirty |-> FALSE,
     snap |-> NewEntry(EmptyStr), cached |-> NewEntry(EmptyStr)]

\* The cycle check of Load: whether label is an entry of loadStack.
OnStackLastOnly(loadStack, label) ==
    /\ loadStack # << >>
    /\ loadStack[Len(loadStack)] = label

OnStack(loadStack, label) == Contains(loadStack, label)

\* entry, ok := l.cache[label]: the entry's address, 0 when !ok.
LookupByModule(label, module) ==
    IF module \in DOMAIN cache THEN cache[module] ELSE 0

Lookup(label, module) ==
    IF label \in DOMAIN cache THEN cache[label] ELSE 0

\* <-entry.ready: whether the receive can proceed.
ReadyAlways(e) == TRUE

Ready(e) == entries[e].ready

\* The value written by entry.err = loadErr.
StoredErrDropped(out) == NoErr

StoredErr(out) == out.err

\* The end of Load: what it returns from the entry.
EntryOutcome(ent) ==
    IF ent.err # NoErr THEN Outcome(NoGlobals, ent.err)
    ELSE Outcome(ent.globals, NoErr)

\* loadFile once the module has no load() statement left to execute: the
\* module runs to its end and loadFile returns its globals, or
\* "executing <label>: <err>" when one of its statements fails.
Settle(f) ==
    IF f.pc = "exec" /\ f.rest = << >>
    THEN [f EXCEPT
            !.pc  = "storeGlobals",
            !.out = IF f.fails
                    THEN Outcome(NoGlobals,
                                 Err("executing", f.label, << >>,
                                     <<Err("eval", f.label, << >>, << >>)>>))
                    ELSE Outcome(Globals(f.label, f.entry), NoErr)]
    ELSE f

\* A Load call returns outcome to its caller.  base holds the calls below it:
\* none for a top-level call; otherwise the innermost is executing its module
\* and the load() statement that made the call either fails the module
\* (loadFile returns "executing <label>: <err>") or is done.
Return(t, base, rec, outcome) ==
    /\ ret' = [ret EXCEPT ![t] = rec]
    /\ IF base = << >>
       THEN /\ frames' = [frames EXCEPT ![t] = << >>]
            /\ cancelled' = [cancelled EXCEPT ![t] = FALSE]
            /\ dirty' = [dirty EXCEPT ![t] = FALSE]
       ELSE LET n      == Len(base)
                caller == base[n]
                next   ==
                    IF outcome.err # NoErr
                    THEN [caller EXCEPT
                            !.pc  = "storeGlobals",
                            !.out = Outcome(NoGlobals,
                                        Err("executing", caller.label, << >>,
                                            <<outcome.err>>))]
                    ELSE Settle([caller EXCEPT !.rest = Tail(caller.rest)])
            IN /\ frames' = [frames EXCEPT ![t] = [base EXCEPT ![n] = next]]
               /\ UNCHANGED <<cancelled, dirty>>

\* The early returns of Load (lines 273-275 and 281-286): the call returns
\* the error of rec before the cache has been looked at.
FailAfterInsert(t, base, rec) ==
    /\ Return(t, base, rec, rec.outcome)
    /\ entries' = Append(entries, NewEntry(rec.module))
    /\ cache' = [l \in DOMAIN cache \cup {rec.module} |->
                    IF l = rec.module THEN Len(entries) + 1 ELSE cache[l]]

FailEarly(t, base, rec) ==
    /\ Return(t, base, rec, rec.outcome)
    /\ UNCHANGED <<cache, entries>>

\* Load up to the cache decision (lines 270-307), called with module on a
\* thread whose current package, repository and load stack are given; with
\* loadFile up to the start of the execution (lines 411-450) on a miss.
Enter(t, base, module, pkg, repo, loadStack) ==
    \E r \in {resolveModule(pkg, repo, module)} :
    IF r.err # NoErr
    THEN FailEarly(t, base,
                   Ret(t, "resolve", module, EmptyStr, loadStack, 0,
                       Outcome(NoGlobals, Err("load", module, << >>, <<r.err>>)),
                       NoOutcome, FALSE))
    ELSE IF OnStack(loadStack, r.label)
    THEN FailEarly(t, base,
                   Ret(t, "cycle", module, r.label, loadStack, 0,
                       Outcome(NoGlobals, CycleError(module, loadStack, r.label)),
                       NoOutcome, FALSE))
    ELSE IF Lookup(r.label, module) = 0
    THEN \E src \in {ReadFile(r.path)} :
         LET e   == Len(entries) + 1
             fr  == IF src.ok
                    THEN Frame(module, r.label, loadStack, e, "exec",
                               src.file.loads, src.file.fails, NoOutcome,
                               FALSE)
                    ELSE Frame(module, r.label, loadStack, e, "storeGlobals",
                               << >>, FALSE,
                               Outcome(NoGlobals,
                                       Err("reading", r.path, << >>,
                                           <<Err("not exist", r.path, << >>, << >>)>>)),
                               FALSE)
         IN /\ entries' = Append(entries, NewEntry(r.label))
            /\ cache' = [l \in DOMAIN cache \cup {r.label} |->
                            IF l = r.label THEN e ELSE cache[l]]
            /\ frames' = [frames EXCEPT ![t] = Append(base, Settle(fr))]
            /\ ret' = [ret EXCEPT ![t] = NoRet]
            /\ UNCHANGED <<cancelled, dirty>>
    ELSE LET e == Lookup(r.label, module) IN
         /\ frames' = [frames EXCEPT ![t] =
                Append(base, Frame(module, r.label, loadStack, e, "wait",
                                   << >>, FALSE, NoOutcome,
                                   ~entries[e].ready))]
         /\ ret' = [ret EXCEPT ![t] = NoRet]
         /\ UNCHANGED <<cache, entries, cancelled, dirty>>

Top(t) == frames[t][Len(frames[t])]

\* A goroutine calls Load(thread, module) with a thread that has no load
\* stack, package or repository set.  Goroutines are interchangeable, so the
\* first call of a run is taken to be g1's.
Load(t, module) ==
    /\ frames[t] = << >>
    /\ calls < MaxCalls
    /\ calls = 0 => t = "g1"
    /\ calls' = calls + 1
    /\ Enter(t, << >>, module, EmptyStr, EmptyStr, << >>)
    /\ UNCHANGED <<clears, evalVars, depsetVars, restVars>>

\* The module being executed reaches its next load() statement: Load is
\* called on the child thread, whose load stack is append(parentStack, label).
ExecLoad(t) ==
    /\ frames[t] # << >>
    /\ Top(t).pc = "exec"
    /\ Top(t).rest # << >>
    /\ \E f \in {Top(t)} :
          Enter(t, frames[t], Head(f.rest), labelPkg(f.label),
                labelRepo(f.label), Append(f.stack, f.label))
    /\ UNCHANGED <<calls, clears, evalVars, depsetVars, restVars>>

\* entry.globals = globals
StoreGlobals(t) ==
    /\ frames[t] # << >>
    /\ Top(t).pc = "storeGlobals"
    /\ entries' = [entries EXCEPT ![Top(t).entry] =
                      [@ EXCEPT !.globals = Top(t).out.globals,
                                !.stored = @ + 1]]
    /\ frames' = [frames EXCEPT ![t][Len(frames[t])].pc = "storeErr"]
    /\ ret' = [ret EXCEPT ![t] = NoRet]
    /\ UNCHANGED <<cache, calls, cancelled, clears, dirty, evalVars, depsetVars, restVars>>

\* entry.err = loadErr
StoreErr(t) ==
    /\ frames[t] # << >>
    /\ Top(t).pc = "storeErr"
    /\ entries' = [entries EXCEPT ![Top(t).entry] =
                      [@ EXCEPT !.err = StoredErr(Top(t).out),
                                !.stored = @ + 1]]
    /\ frames' = [frames EXCEPT ![t][Len(frames[t])].pc = "close"]
    /\ ret' = [ret EXCEPT ![t] = NoRet]
    /\ UNCHANGED <<cache, calls, cancelled, clears, dirty, evalVars, depsetVars, restVars>>

\* close(entry.ready) and the return of the initializing caller.
CloseReturn(t) ==
    /\ frames[t] # << >>
    /\ Top(t).pc = "close"
    /\ LET f    == Top(t)
           base == SubSeq(frames[t], 1, Len(frames[t]) - 1)
       IN /\ entries' = [entries EXCEPT ![f.entry].ready = TRUE]
          /\ Return(t, base,
                    [Ret(t, "init", f.module, f.label, f.stack, f.entry,
                         EntryOutcome(entries[f.entry]), f.out, FALSE)
                       EXCEPT !.snap = [entries[f.entry] EXCEPT !.ready = TRUE],
                              !.cached =
                                 IF f.label \in DOMAIN cache
                                    /\ cache[f.label] = f.entry
                                 THEN [entries[f.entry] EXCEPT !.ready = TRUE]
                                 ELSE @],
                    EntryOutcome(entries[f.entry]))
    /\ UNCHANGED <<cache, calls, clears, evalVars, depsetVars, restVars>>

\* <-entry.ready and the return of a caller that found the entry in the cache.
WaitReturn(t) ==
    /\ frames[t] # << >>
    /\ Top(t).pc = "wait"
    /\ Ready(Top(t).entry)
    /\ LET f    == Top(t)
           base == SubSeq(frames[t], 1, Len(frames[t]) - 1)
       IN Return(t, base,
                 Ret(t, "hit", f.module, f.label, f.stack, f.entry,
                     EntryOutcome(entries[f.entry]), NoOutcome, f.blocked),
                 EntryOutcome(entries[f.entry]))
    /\ UNCHANGED <<cache, entries, calls, clears, evalVars, depsetVars, restVars>>

\* ClearCache: l.cache = make(map[string]*loadEntry), under the mutex.  A
\* call that finds the cache empty changes nothing and is left out.
ClearCache ==
    /\ clears < MaxClears
    /\ DOMAIN cache # {}
    /\ cache' = << >>
    /\ clears' = clears + 1
    /\ entries' = [i \in DOMAIN entries |->
                      IF \E l \in DOMAIN cache : cache[l] = i
                      THEN [entries[i] EXCEPT !.cleared = TRUE]
                      ELSE entries[i]]
    /\ dirty' = [t \in Threads |-> dirty[t] \/ frames[t] # << >>]
    /\ UNCHANGED <<frames, ret, calls, cancelled, evalVars, depsetVars, restVars>>

\* The host cancels the evaluation of a goroutine that is blocked waiting
\* for an entry (starlark.Thread.Cancel).  Nothing in Load, loadFile or
\* ClearCache reads the cancellation.
Cancel(t) ==
    /\ frames[t] # << >>
    /\ Top(t).pc = "wait"
    /\ ~entries[Top(t).entry].ready
    /\ ~cancelled[t]
    /\ cancelled' = [cancelled EXCEPT ![t] = TRUE]
    /\ UNCHANGED <<cache, entries, frames, ret, calls, clears, dirty,
                   evalVars, depsetVars, restVars>>

\* A step of goroutine t inside Load.
Step(t) ==
    \/ ExecLoad(t)
    \/ StoreGlobals(t)
    \/ StoreErr(t)
    \/ CloseReturn(t)
    \/ WaitReturn(t)

LoaderInit ==
    /\ cache = << >>
    /\ entries = << >>
    /\ frames = [t \in Threads |-> << >>]
    /\ ret = [t \in Threads |-> NoRet]
    /\ calls = 0
    /\ cancelled = [t \in Threads |-> FALSE]
    /\ clears = 0
    /\ dirty = [t \in Threads |-> FALSE]

EvalInit ==
    /\ ecache = << >>
    /\ estack = << >>
    /\ eresult = [status |-> "none", path |-> EmptyStr, err |-> NoErr]
    /\ evals = 0

DepsetInit ==
    /\ pool = {}
    /\ lastNew = << >>
    /\ lastList = << >>

ProviderInit ==
    /\ providers = << >>
    /\ instances = {}
    /\ lastCall = << >>

RuleInit ==
    /\ ruleClasses = << >>
    /\ bzlGlobals = << >>
    /\ build = [phase |-> "idle", targets |-> << >>]
    /\ lastRule = << >>

\* A map that may be nil: PackageContext.Rules is nil until it is made.
NilMap == [nil |-> TRUE, map |-> << >>]
MadeMap(m) == [nil |-> FALSE, map |-> m]

NativeInit ==
    /\ pkgTargets = << >>
    /\ ctxRules = NilMap
    /\ views = << >>
    /\ lastAdd = << >>
    /\ lastView = << >>

LabelInit ==
    /\ parsed = << >>
    /\ trip = << >>

\* The package directory /p with its BUILD file and the files a, @b and =c;
\* the directory d with a, and the directory s with a and t/a.
PackageDir == <<"/", "p">>
InitialFiles ==
    { <<"/", "p", "/", "B", "U", "I", "L", "D">>,
      <<"/", "p", "/", "a">>,
      <<"/", "p", "/", "@", "b">>,
      <<"/", "p", "/", "=", "c">>,
      <<"/", "p", "/", "d", "/", "a">>,
      <<"/", "p", "/", "s", "/", "a">>,
      <<"/", "p", "/", "s", "/", "t", "/", "a">> }

GlobInit ==
    /\ files = InitialFiles
    /\ globs = 0
    /\ lastGlob = << >>

\* NewCtx and NewActions: an empty log, nothing frozen.
ActionInit ==
    /\ declared = << >>
    /\ frozen = [ctx |-> FALSE, actions |-> FALSE]
    /\ lastOp = << >>

Init ==
    /\ LoaderInit /\ EvalInit /\ DepsetInit /\ ProviderInit /\ RuleInit
    /\ NativeInit /\ LabelInit /\ GlobInit /\ ActionInit

LoaderNext ==
    \/ \E t \in Threads : \E m \in TopModules : Load(t, m)
    \/ \E t \in Threads : ExecLoad(t)
    \/ \E t \in Threads : StoreGlobals(t)
    \/ \E t \in Threads : StoreErr(t)
    \/ \E t \in Threads : CloseReturn(t)
    \/ \E t \in Threads : WaitReturn(t)
    \/ \E t \in Threads : Cancel(t)
    \/ ClearCache

LoaderSpec == Init /\ [][LoaderNext]_vars


\* The goroutines take their steps: a goroutine that can run does run.
FairLoaderSpec ==
    /\ LoaderSpec
    /\ \A t \in Threads : WF_vars(Step(t))

---------------------------------------------------------------------------
(* Properties of the loader.                                               *)

\* The Load calls of goroutine t that are active.
FramesOf(t) == { frames[t][k] : k \in 1..Len(frames[t]) }

\* Goroutine t is blocked in <-entry.ready.
Blocked(t) ==
    /\ frames[t] # << >>
    /\ Top(t).pc = "wait"
    /\ ~entries[Top(t).entry].ready

\* C1: a Load call made on a thread whose load stack contains the module's
\* canonical label never gets past the cycle check: no active call has its
\* own label on the load stack it was called with, and every such call
\* returns a CycleError whose stack is the load stack followed by the label,
\* without having used a cache entry or executed the module.
C1_CycleIsReported ==
    \A t \in Threads :
        /\ \A f \in FramesOf(t) : \A i \in 1..Len(f.stack) : f.stack[i] # f.label
        /\ ( /\ ret[t].kind \in {"cycle", "init", "hit"}
             /\ \E i \in 1..Len(ret[t].stack) : ret[t].stack[i] = ret[t].label )
           => /\ ret[t].kind = "cycle"
              /\ ret[t].entry = 0
              /\ ret[t].outcome.globals = NoGlobals
              /\ ret[t].outcome.err.kind = "cycle"
              /\ ret[t].outcome.err.stack = ret[t].stack \o <<ret[t].label>>

\* C1 witness: a nested Load of a label that is on the load stack returned.
C1_Witness ==
    \E t \in Threads :
        /\ ret[t].kind = "cycle"
        /\ Len(ret[t].stack) = 2
        /\ ret[t].stack[1] = ret[t].label

\* C2: between two ClearCache calls each canonical label has at most one
\* entry, hence one read and one execution of its module; every call that
\* looked the label up since the last ClearCache uses that entry, and an
\* entry has at most one initializing caller.
C2_LoadedOncePerLabel ==
    /\ \A i, j \in DOMAIN entries :
          ( /\ entries[i].label = entries[j].label
            /\ ~entries[i].cleared
            /\ ~entries[j].cleared ) => i = j
    /\ \A t \in Threads : \A f \in FramesOf(t) :
          ~entries[f.entry].cleared =>
              /\ f.label \in DOMAIN cache
              /\ cache[f.label] = f.entry
    /\ \A i \in DOMAIN entries :
          Cardinality({ <<t, k>> \in Threads \X (1..(MaxCalls + 2)) :
                            /\ k <= Len(frames[t])
                            /\ frames[t][k].entry = i
                            /\ frames[t][k].pc # "wait" }) <= 1

\* C2 witness: two goroutines are in Load for the same label at once, one
\* initializing the entry and the other using it.
C2_Witness ==
    \E t, u \in Threads :
        /\ t # u
        /\ frames[t] # << >> /\ frames[u] # << >>
        /\ Top(t).entry = Top(u).entry
        /\ Top(t).pc = "storeErr"
        /\ Top(u).pc = "wait"

\* C3: ready is closed only on an entry whose two fields have been written;
\* a call that used an entry returns only once the entry is ready, returns
\* what the entry holds, which is what loadFile returned to the initializing
\* caller, and the entry does not change afterwards.
C3_OutcomeReadAfterReady ==
    /\ \A i \in DOMAIN entries : entries[i].ready => entries[i].stored = 2
    /\ \A t \in Threads :
          ret[t].kind \in {"init", "hit"} =>
              /\ ret[t].snap.ready
              /\ ret[t].snap.stored = 2
              /\ ret[t].outcome = EntryOutcome(ret[t].snap)
              /\ entries[ret[t].entry].globals = ret[t].snap.globals
              /\ entries[ret[t].entry].err = ret[t].snap.err
              /\ ret[t].kind = "init" =>
                    /\ ret[t].snap.globals = ret[t].computed.globals
                    /\ ret[t].snap.err = ret[t].computed.err

\* C3 witness: a caller that found the entry in progress has returned a
\* successful load's globals.
C3_Witness ==
    \E t \in Threads :
        /\ ret[t].kind = "hit"
        /\ ret[t].waited
        /\ ret[t].outcome.globals # NoGlobals

\* C4: the error loadFile returns is the error written to the entry and
\* returned; a failed entry stays in the cache until ClearCache and is the
\* label's only entry since the last ClearCache; and a Load call of a
\* top-level call during which no ClearCache ran, returning while the cache
\* holds a failed entry for its label, returns that entry's error, either
\* as the call that recorded it or without executing the module.
C4_FailureIsCached ==
    /\ \A i \in DOMAIN entries :
          (entries[i].ready /\ entries[i].err # NoErr /\ ~entries[i].cleared) =>
              /\ entries[i].label \in DOMAIN cache
              /\ cache[entries[i].label] = i
              /\ \A j \in DOMAIN entries :
                    (entries[j].label = entries[i].label /\ ~entries[j].cleared)
                        => j = i
    /\ \A t \in Threads :
          /\ ret[t].kind = "init" =>
                /\ ret[t].snap.err = ret[t].computed.err
                /\ ret[t].outcome.err = ret[t].computed.err
          /\ ( /\ ret[t].kind \in {"cycle", "init", "hit"}
               /\ ~ret[t].dirty
               /\ ret[t].cached.ready
               /\ ret[t].cached.err # NoErr )
             => /\ ret[t].outcome = Outcome(NoGlobals, ret[t].cached.err)
                /\ ret[t].kind \in {"init", "hit"}
                /\ ret[t].snap = ret[t].cached

\* C4 witness: a Load made after the failure was recorded returned the
\* recorded error from the cache.
C4_Witness ==
    \E t \in Threads :
        /\ ret[t].kind = "hit"
        /\ ~ret[t].waited
        /\ ret[t].outcome.err # NoErr

\* C6: a goroutine whose evaluation is cancelled while it waits for an
\* entry stops waiting.
C6_CancelledWaiterIsFreed ==
    \A t \in Threads : (cancelled[t] /\ Blocked(t)) ~> ~Blocked(t)

---------------------------------------------------------------------------
(* eval.Evaluator built with Options{FileLoader: ...} and no BzlLoader:    *)
(* EvalBzlFile, EvalBzl and the load function of makeLoadFunc.  (With a    *)
(* BzlLoader, EvalBzl installs loader.MakeLoadFunc and the load()          *)
(* statements of the file are top-level calls of BzlFileLoader.Load.)      *)

\* Module strings, which the load function uses as file paths as they are.
EvalA == <<"a", ".", "b", "z", "l">>
EvalB == <<"b", ".", "b", "z", "l">>
EvalC == <<"c", ".", "b", "z", "l">>
EvalD == <<"d", ".", "b", "z", "l">>
EvalM == <<"m", ".", "b", "z", "l">>
EvalX == <<"x", ".", "b", "z", "l">>

\* The files of the Evaluator's file system.  m.bzl does not exist.
EvalFiles ==
    { [path |-> EvalA,   loads |-> <<EvalB>>,        fails |-> FALSE],
      [path |-> EvalB,   loads |-> <<EvalA>>,        fails |-> FALSE],
      [path |-> EvalC,   loads |-> <<EvalD, EvalD>>, fails |-> FALSE],
      [path |-> EvalD,   loads |-> << >>,            fails |-> FALSE],
      [path |-> LegacyE, loads |-> << >>,            fails |-> TRUE],
      [path |-> EvalX,   loads |-> <<EvalM, EvalD>>, fails |-> FALSE] }

EvalPaths == { f.path : f \in EvalFiles } \cup {EvalM}

\* FileSystemLoader.Load: the file at path, or the file system's error.
FileLoaderLoad(path) ==
    IF \E f \in EvalFiles : f.path = path
    THEN [ok |-> TRUE, file |-> CHOOSE f \in EvalFiles : f.path = path,
          err |-> NoErr]
    ELSE [ok |-> FALSE, file |-> [path |-> path, loads |-> << >>, fails |-> FALSE],
          err |-> Err("not exist", path, << >>, << >>)]

\* An active starlark.ExecFile: the file, its load() statements yet to be
\* executed, whether the statements after them fail, and once it has ended
\* (pc = "done") what it returned.
EvalFrame(file) ==
    [module |-> file.path, rest |-> file.loads, fails |-> file.fails,
     pc |-> "exec", out |-> NoOutcome]

EvalTop == estack[Len(estack)]

\* The innermost ExecFile ends with outcome out.
EvalEnd(out) ==
    estack' = [estack EXCEPT ![Len(estack)] = [@ EXCEPT !.pc = "done", !.out = out]]

\* The load() statement being executed gets outcome out from thread.Load:
\* an error ends the ExecFile ("cannot load <module>: <err>"), otherwise the
\* file goes on with its next statement.
EvalLoaded(stack, module, out) ==
    LET n == Len(stack) IN
    IF out.err # NoErr
    THEN [stack EXCEPT ![n] =
             [@ EXCEPT !.pc = "done",
                       !.out = Outcome(NoGlobals,
                                   Err("cannot load", module, << >>, <<out.err>>))]]
    ELSE [stack EXCEPT ![n] = [@ EXCEPT !.rest = Tail(@)]]

\* EvalBzlFile(path): reads the file and hands it to EvalBzl, which starts
\* executing it on a thread whose Load is e.makeLoadFunc().
EvalBzlFile(path) ==
    /\ estack = << >>
    /\ eresult.status # "crash"
    /\ evals < MaxEvals
    /\ evals' = evals + 1
    /\ \E src \in {FileLoaderLoad(path)} :
          IF src.ok
          THEN /\ estack' = <<EvalFrame(src.file)>>
               /\ eresult' = [status |-> "none", path |-> path, err |-> NoErr]
          ELSE /\ estack' = << >>
               /\ eresult' = [status |-> "error", path |-> path,
                              err |-> Err("loading", path, << >>, <<src.err>>)]
    /\ UNCHANGED <<ecache, loaderVars, depsetVars, restVars>>

\* The file being executed reaches a load() statement and calls the load
\* function: a cached module is returned as it is; a module that cannot be
\* read is cached with the error; otherwise the module is executed on a new
\* thread, which the goroutine's stack must have room for.
makeLoadFunc ==
    /\ estack # << >>
    /\ EvalTop.pc = "exec"
    /\ EvalTop.rest # << >>
    /\ LET module == Head(EvalTop.rest) IN
       IF module \in DOMAIN ecache
       THEN /\ estack' = EvalLoaded(estack, module, ecache[module])
            /\ UNCHANGED <<ecache, eresult>>
       ELSE \E src \in {FileLoaderLoad(module)} :
            IF ~src.ok
            THEN /\ ecache' = [m \in DOMAIN ecache \cup {module} |->
                                  IF m = module THEN Outcome(NoGlobals, src.err)
                                  ELSE ecache[m]]
                 /\ estack' = EvalLoaded(estack, module,
                                         Outcome(NoGlobals, src.err))
                 /\ UNCHANGED eresult
            ELSE IF Len(estack) < MaxDepth
            THEN /\ estack' = Append(estack, EvalFrame(src.file))
                 /\ UNCHANGED <<ecache, eresult>>
            ELSE /\ estack' = << >>
                 /\ eresult' = [status |-> "crash", path |-> estack[1].module,
                                err |-> Err("stack overflow", module, << >>, << >>)]
                 /\ UNCHANGED ecache
    /\ UNCHANGED <<evals, loaderVars, depsetVars, restVars>>

\* The file being executed has no load() statement left and runs to its end.
ExecFile ==
    /\ estack # << >>
    /\ EvalTop.pc = "exec"
    /\ EvalTop.rest = << >>
    /\ EvalEnd(IF EvalTop.fails
               THEN Outcome(NoGlobals, Err("eval", EvalTop.module, << >>, << >>))
               ELSE Outcome(Globals(EvalTop.module, 1), NoErr))
    /\ UNCHANGED <<ecache, eresult, evals, loaderVars, depsetVars, restVars>>

\* ExecFile has returned.  In the load function: the outcome is cached under
\* the module string and returned to the load() statement of the caller.
\* In EvalBzl: the result or "evaluating <path>: <err>" is returned.
EvalReturn ==
    /\ estack # << >>
    /\ EvalTop.pc = "done"
    /\ IF Len(estack) = 1
       THEN /\ estack' = << >>
            /\ eresult' =
                  IF EvalTop.out.err # NoErr
                  THEN [status |-> "error", path |-> EvalTop.module,
                        err |-> Err("evaluating", EvalTop.module, << >>,
                                    <<EvalTop.out.err>>)]
                  ELSE [status |-> "ok", path |-> EvalTop.module, err |-> NoErr]
            /\ UNCHANGED ecache
       ELSE /\ ecache' = [m \in DOMAIN ecache \cup {EvalTop.module} |->
                             IF m = EvalTop.module THEN EvalTop.out
                             ELSE ecache[m]]
            /\ estack' = EvalLoaded(SubSeq(estack, 1, Len(estack) - 1),
                                    EvalTop.module, EvalTop.out)
            /\ UNCHANGED eresult
    /\ UNCHANGED <<evals, loaderVars, depsetVars, restVars>>

EvalNext ==
    \/ \E path \in EvalPaths : EvalBzlFile(path)
    \/ makeLoadFunc
    \/ ExecFile
    \/ EvalReturn

EvalSpec == Init /\ [][EvalNext]_vars

\* The modules that the file at path loads.
EvalLoads(path) ==
    { f.loads[i] : <<f, i>> \in { <<g, j>> \in EvalFiles \X (1..2) :
                                    g.path = path /\ j <= Len(g.loads) } }

\* The modules reached from the modules of S by at most n further loads.
RECURSIVE EvalReach(_, _)
EvalReach(S, n) ==
    IF n = 0 THEN S
    ELSE EvalReach(S \cup UNION { EvalLoads(m) : m \in S }, n - 1)

\* The modules on a load cycle through path; empty when there is none.
EvalCycle(path) ==
    { m \in EvalReach(EvalLoads(path), Cardinality(EvalFiles)) :
        /\ path \in EvalReach(EvalLoads(m), Cardinality(EvalFiles))
        /\ path \in EvalReach(EvalLoads(path), Cardinality(EvalFiles)) }

\* C5: an evaluation of a module that lies on a load cycle ends, and ends
\* with an error that is or wraps a CycleError whose stack lists the modules
\* on the cycle.
C5_CycleEndsWithCycleError ==
    (eresult.status # "none" /\ EvalCycle(eresult.path) # {}) =>
        /\ eresult.status = "error"
        /\ IsCycleError(eresult.err)
        /\ \A m \in EvalCycle(eresult.path) :
              Contains(AsCycleError(eresult.err).stack, m)

---------------------------------------------------------------------------
(* types.Depset: Order, NewDepset, DepsetUnion and ToList.                 *)

\* The Order constants (iota).
OrderDefault     == 0
OrderPostorder   == 1
OrderPreorder    == 2
OrderTopological == 3

Orders == {OrderDefault, OrderPostorder, OrderPreorder, OrderTopological}

\* Order.String
OrderString(o) ==
    CASE o = OrderDefault     -> "default"
      [] o = OrderPostorder   -> "postorder"
      [] o = OrderPreorder    -> "preorder"
      [] o = OrderTopological -> "topological"
      [] OTHER                -> "unknown"

\* Order.IsCompatible
IsCompatibleAlways(o, other) == TRUE

IsCompatible(o, other) ==
    o = other \/ o = OrderDefault \/ other = OrderDefault

\* The starlark values used as elements, with what the depset code asks of
\* them: Type(), Hash() (hashable tells whether it succeeds; a uint32 is the
\* pair of its high and low 16 bits), String() (the code points) and val,
\* the mathematical value that starlark.Equal compares.
\*   1 and 4294967297 are distinct ints with the same hash;
\*   (1, []) and (1.0, []) are unhashable tuples that are equal, since
\*   1 == 1.0, and whose String() differ;  [] is a list.
Int1 ==
    [type |-> "int", hashable |-> TRUE, hash |-> <<768, 20>>,
     str |-> <<49>>, val |-> "1"]
IntBig ==
    [type |-> "int", hashable |-> TRUE, hash |-> <<768, 20>>,
     str |-> <<52, 50, 57, 52, 57, 54, 55, 50, 57, 55>>, val |-> "4294967297"]
TupA ==
    [type |-> "tuple", hashable |-> FALSE, hash |-> <<0, 0>>,
     str |-> <<40, 49, 44, 32, 91, 93, 41>>, val |-> "(1, [])"]
TupB ==
    [type |-> "tuple", hashable |-> FALSE, hash |-> <<0, 0>>,
     str |-> <<40, 49, 46, 48, 44, 32, 91, 93, 41>>, val |-> "(1, [])"]
ListV ==
    [type |-> "list", hashable |-> FALSE, hash |-> <<0, 0>>,
     str |-> <<91, 93>>, val |-> "[]"]

\* The direct element lists passed to a depset construction.
Directs ==
    { << >>, <<Int1>>, <<Int1, IntBig>>, <<IntBig, Int1>>, <<TupA, TupB>>,
      <<Int1, TupA>>, <<ListV>> }

\* starlark.Equal
Equal(x, y) == x.val = y.val

\* The sequences over S of length at most n.
SeqsUpTo(S, n) == UNION { [1..k -> S] : k \in 0..n }

\* An error of the depset code: its kind and the two names it quotes.
DepsetErr(kind, a, b) == [kind |-> kind, a |-> a, b |-> b]
NoDepsetErr == DepsetErr("nil", "", "")

\* &Depset{order, direct, transitive, elemType}
Depset(order, direct, transitive, elemType) ==
    [order |-> order, direct |-> direct, transitive |-> transitive,
     elemType |-> elemType]

\* checkAndSetType, on the element type the depset has so far.
checkAndSetType(elemType, elem) ==
    IF elem.type \in {"list", "dict"}
    THEN [elemType |-> elemType,
          err |-> DepsetErr("forbidden", elem.type, "")]
    ELSE IF elemType = ""
    THEN [elemType |-> elem.type, err |-> NoDepsetErr]
    ELSE IF elemType # elem.type
    THEN [elemType |-> elemType,
          err |-> DepsetErr("type", elem.type, elemType)]
    ELSE [elemType |-> elemType, err |-> NoDepsetErr]

\* isEmpty
RECURSIVE isEmpty(_)
isEmpty(d) ==
    /\ Len(d.direct) = 0
    /\ \A i \in 1..Len(d.transitive) : isEmpty(d.transitive[i])

\* NewDepset, the loop over d.direct from its i-th element on.
RECURSIVE checkDirect(_, _, _)
checkDirect(direct, i, elemType) ==
    IF i > Len(direct) THEN [elemType |-> elemType, err |-> NoDepsetErr]
    ELSE LET c == checkAndSetType(elemType, direct[i]) IN
         IF c.err # NoDepsetErr THEN c
         ELSE checkDirect(direct, i + 1, c.elemType)

\* NewDepset, the type check of one non-empty transitive depset t.
unifyTypeUnchecked(elemType, t) ==
    [elemType |-> IF elemType = "" THEN t.elemType ELSE elemType,
     err |-> NoDepsetErr]

unifyType(elemType, t) ==
    IF elemType = ""
    THEN [elemType |-> t.elemType, err |-> NoDepsetErr]
    ELSE IF t.elemType # "" /\ elemType # t.elemType
    THEN [elemType |-> elemType,
          err |-> DepsetErr("type", t.elemType, elemType)]
    ELSE [elemType |-> elemType, err |-> NoDepsetErr]

\* NewDepset, the loop over d.transitive from its i-th depset on.
RECURSIVE checkTransitive(_, _, _, _)
checkTransitive(order, transitive, i, elemType) ==
    IF i > Len(transitive) THEN [elemType |-> elemType, err |-> NoDepsetErr]
    ELSE LET t == transitive[i] IN
         IF isEmpty(t)
         THEN checkTransitive(order, transitive, i + 1, elemType)
         ELSE IF ~IsCompatible(order, t.order)
         THEN [elemType |-> elemType,
               err |-> DepsetErr("order", OrderString(order),
                                 OrderString(t.order))]
         ELSE LET u == unifyType(elemType, t) IN
              IF u.err # NoDepsetErr THEN u
              ELSE checkTransitive(order, transitive, i + 1, u.elemType)

\* NewDepset: the depset and a nil error, or an error.
NewDepset(order, direct, transitive) ==
    LET c == checkDirect(direct, 1, "") IN
    IF c.err # NoDepsetErr
    THEN [ok |-> FALSE, d |-> Depset(order, << >>, << >>, ""), err |-> c.err]
    ELSE LET u == checkTransitive(order, transitive, 1, c.elemType) IN
         IF u.err # NoDepsetErr
         THEN [ok |-> FALSE, d |-> Depset(order, << >>, << >>, ""),
               err |-> u.err]
         ELSE [ok |-> TRUE,
               d |-> Depset(order, direct, transitive, u.elemType),
               err |-> NoDepsetErr]

\* DepsetUnion
DepsetUnionFirstOnly(a, b) ==
    NewDepset(IF a.order = OrderDefault THEN b.order ELSE a.order,
              << >>, <<a>>)

DepsetUnion(a, b) ==
    NewDepset(IF a.order = OrderDefault THEN b.order ELSE a.order,
              << >>, <<a, b>>)

\* hashString: h = h*31 + uint32(c) for each code point, in 32 bits kept as
\* two 16-bit halves.
RECURSIVE hashFrom(_, _)
hashFrom(h, s) ==
    IF s = << >> THEN h
    ELSE LET lo == h[2] * 31 + Head(s)
             hi == h[1] * 31 + (lo \div 65536)
         IN hashFrom(<<hi % 65536, lo % 65536>>, Tail(s))

hashString(s) == hashFrom(<<0, 0>>, s)

\* alreadySeen, the bucket of elem: its hash, or the hash of its String()
\* when it is unhashable.
BucketOf(elem) ==
    IF elem.hashable THEN elem.hash ELSE hashString(elem.str)

\* alreadySeen, the scan of the bucket.
InBucket(bucket, elem) ==
    \E i \in 1..Len(bucket) : Equal(bucket[i], elem)

\* alreadySeen: whether elem was seen, and the seen map afterwards.
alreadySeen(seen, elem) ==
    LET h      == BucketOf(elem)
        bucket == IF h \in DOMAIN seen THEN seen[h] ELSE << >>
    IN IF InBucket(bucket, elem)
       THEN [seen |-> seen, found |-> TRUE]
       ELSE [seen |-> [k \in DOMAIN seen \cup {h} |->
                          IF k = h THEN Append(bucket, elem) ELSE seen[k]],
             found |-> FALSE]

\* addDirect, from the i-th direct element on; st is the seen map and the
\* result so far.
RECURSIVE addDirectFrom(_, _, _)
addDirectFrom(direct, i, st) ==
    IF i > Len(direct) THEN st
    ELSE LET a == alreadySeen(st.seen, direct[i]) IN
         addDirectFrom(direct, i + 1,
                       [seen   |-> a.seen,
                        result |-> IF a.found THEN st.result
                                   ELSE Append(st.result, direct[i])])

addDirect(d, st) == addDirectFrom(d.direct, 1, st)

\* walk: preorder := order == OrderPreorder
preorderAlways(order) == TRUE

preorder(order) == order = OrderPreorder

RECURSIVE walk(_, _, _)
RECURSIVE addTransitiveFrom(_, _, _, _)

\* addTransitive, from the i-th transitive depset on.
addTransitiveFrom(transitive, i, order, st) ==
    IF i > Len(transitive) THEN st
    ELSE addTransitiveFrom(transitive, i + 1, order,
                           walk(transitive[i], order, st))

addTransitive(d, order, st) == addTransitiveFrom(d.transitive, 1, order, st)

walk(d, order, st) ==
    IF preorder(order)
    THEN addTransitive(d, order, addDirect(d, st))
    ELSE addDirect(d, addTransitive(d, order, st))

\* The slice reversed in place.
Reverse(s) == [i \in 1..Len(s) |-> s[Len(s) + 1 - i]]

\* ToList
ToList(d) ==
    LET st == walk(d, d.order, [seen |-> << >>, result |-> << >>]) IN
    IF d.order = OrderTopological THEN Reverse(st.result) ELSE st.result

\* A construction from the operands returns r: lastNew is r with the
\* operands of a union, and the depset joins the pool if there is one.
Constructed(r, operands) ==
    /\ lastNew' = <<[ok |-> r.ok, d |-> r.d, err |-> r.err,
                     union |-> operands]>>
    /\ lastList' = << >>
    /\ pool' = IF r.ok THEN pool \cup {r.d} ELSE pool

\* NewDepset(order, direct, transitive) is called.
NewDepsetCall(order, direct, transitive) ==
    /\ Cardinality(pool) < MaxDepsets
    /\ Constructed(NewDepset(order, direct, transitive), << >>)
    /\ UNCHANGED <<loaderVars, evalVars, restVars>>

\* DepsetUnion(a, b) is called.
DepsetUnionCall(a, b) ==
    /\ Cardinality(pool) < MaxDepsets
    /\ Constructed(DepsetUnion(a, b), <<a, b>>)
    /\ UNCHANGED <<loaderVars, evalVars, restVars>>

\* d.ToList() is called.
ToListCall(d) ==
    /\ lastList' = <<[d |-> d, result |-> ToList(d)]>>
    /\ lastNew' = << >>
    /\ UNCHANGED <<pool, loaderVars, evalVars, restVars>>

DepsetNext ==
    \/ \E order \in Orders :
       \E direct \in Directs :
       \E transitive \in SeqsUpTo(pool, MaxTransitive) :
           NewDepsetCall(order, direct, transitive)
    \/ \E a \in pool : \E b \in pool : DepsetUnionCall(a, b)
    \/ \E d \in pool : ToListCall(d)

DepsetSpec == Init /\ [][DepsetNext]_vars

---------------------------------------------------------------------------
(* Properties of depsets.                                                  *)

\* The elements of the depset's DAG: its direct elements and those of its
\* transitive depsets.
RECURSIVE ElementsOf(_)
ElementsOf(d) ==
    { d.direct[i] : i \in 1..Len(d.direct) }
        \cup UNION { ElementsOf(d.transitive[i]) : i \in 1..Len(d.transitive) }

\* The traversal of the DAG in the given order, every occurrence listed:
\* for preorder the direct elements and then the children, left to right;
\* otherwise the children, left to right, and then the direct elements.
RECURSIVE Traversal(_, _)
RECURSIVE TraverseAll(_, _)
Traversal(d, order) ==
    IF order = OrderPreorder
    THEN d.direct \o TraverseAll(d.transitive, order)
    ELSE TraverseAll(d.transitive, order) \o d.direct

TraverseAll(ds, order) ==
    IF ds = << >> THEN << >>
    ELSE Traversal(Head(ds), order) \o TraverseAll(Tail(ds), order)

\* The position at which x occurs first in s.
FirstPos(s, x) ==
    CHOOSE k \in 1..Len(s) : s[k] = x /\ \A m \in 1..(k - 1) : s[m] # x

\* C7: the list ToList returns holds no two equal elements, holds an equal
\* of every element of the DAG, and is what a repeated call returns.
C7_EachDistinctElementOnce ==
    lastList # << >> =>
        LET d == lastList[1].d
            r == lastList[1].result
        IN /\ \A i, j \in 1..Len(r) : Equal(r[i], r[j]) => i = j
           /\ \A x \in ElementsOf(d) : \E i \in 1..Len(r) : Equal(r[i], x)
           /\ r = ToList(d)

C9_IncompatibleOrderFails ==
    \A d \in pool : \A i \in 1..Len(d.transitive) :
        ElementsOf(d.transitive[i]) # {} =>
            \/ d.order = d.transitive[i].order
            \/ d.order = OrderDefault
            \/ d.transitive[i].order = OrderDefault

\* C9 witness: a construction with order topological and a non-empty
\* preorder transitive depset has failed.
C9_Witness ==
    /\ lastNew # << >>
    /\ ~lastNew[1].ok
    /\ lastNew[1].err = DepsetErr("order", "topological", "preorder")

Range(s) == { s[i] : i \in 1..Len(s) }

\* Every element of S has an equal in T and every element of T has an equal
\* in S.
SameElements(S, T) ==
    /\ \A x \in S : \E y \in T : Equal(x, y)
    /\ \A y \in T : \E x \in S : Equal(x, y)

\* C11: the list of a union of two depsets holds, as a set, the elements of
\* the list of the first and those of the list of the second.
C11_UnionIsSetUnion ==
    (lastNew # << >> /\ lastNew[1].ok /\ lastNew[1].union # << >>) =>
        SameElements(Range(ToList(lastNew[1].d)),
                     Range(ToList(lastNew[1].union[1]))
                         \cup Range(ToList(lastNew[1].union[2])))

\* C11 witness: the union of two depsets, the second holding an element the
\* first lacks, has been constructed.
C11_Witness ==
    /\ lastNew # << >>
    /\ lastNew[1].ok
    /\ lastNew[1].union # << >>
    /\ Range(ToList(lastNew[1].union[1])) = {Int1}
    /\ Range(ToList(lastNew[1].union[2])) = {Int1, IntBig}

---------------------------------------------------------------------------
(* Providers: provider(), Provider.CallInternal and the raw constructor.   *)

MaxProviders == 2
MaxInstances == 2

\* starlark.None as the value of an argument left out.
None == "None"

\* The fields arguments of provider(): left out, an empty list, a list.
FieldsArgs == { None, << >>, <<"x", "y">> }

\* The init callbacks: none; one returning its keyword arguments as a dict;
\* one returning them with a key "z" added; one returning a list; one
\* returning a dict with an int key.
InitFns == { "none", "same", "extra", "notdict", "intkey" }

\* The keyword arguments of a constructor call, in call order.
KwargsArgs == { << >>, <<"x">>, <<"z">>, <<"x", "y">>, <<"x", "z">> }

\* provider(): the field list parsed from the fields argument.
fieldList(fields) == IF fields = None THEN << >> ELSE fields

\* NewProvider; arg records the fields argument the provider was created
\* from.
NewProvider(fields, init, arg) ==
    [name |-> "", fields |-> fields, init |-> init, arg |-> arg]

\* What a constructor call returns.
CallOk(path, p, values) ==
    [path |-> path, ok |-> TRUE, provider |-> p, values |-> values,
     err |-> "", key |-> ""]
CallErr(path, p, err, key) ==
    [path |-> path, ok |-> FALSE, provider |-> p, values |-> << >>,
     err |-> err, key |-> key]

\* starlark.Call(thread, p.init, args, kwargs): the value the callback
\* returns, a dict being the sequence of its items.
callInit(init, kwargs) ==
    CASE init = "same"    -> [dict |-> TRUE,
                              items |-> [i \in 1..Len(kwargs) |->
                                            [str |-> TRUE, key |-> kwargs[i]]]]
      [] init = "extra"   -> [dict |-> TRUE,
                              items |-> [i \in 1..(Len(kwargs) + 1) |->
                                            IF i <= Len(kwargs)
                                            THEN [str |-> TRUE, key |-> kwargs[i]]
                                            ELSE [str |-> TRUE, key |-> "z"]]]
      [] init = "intkey"  -> [dict |-> TRUE,
                              items |-> <<[str |-> FALSE, key |-> "1"]>>]
      [] OTHER            -> [dict |-> FALSE, items |-> << >>]

\* slices.Contains
SliceContains(fields, key) == \E i \in 1..Len(fields) : fields[i] = key

\* The field check of the constructors: fields are validated if the
\* provider's field list is not empty.
Unexpected(fields, key) == Len(fields) > 0 /\ ~SliceContains(fields, key)

\* The values map built from the keys, each with the value passed for it.
ValuesOf(keys) == [k \in { keys[i] : i \in 1..Len(keys) } |-> 1]

\* The keyword loop of the constructors: the first unexpected key fails the
\* call.
buildValues(path, p, keys) ==
    IF \E i \in 1..Len(keys) : Unexpected(providers[p].fields, keys[i])
    THEN LET i == CHOOSE i \in 1..Len(keys) :
                     /\ Unexpected(providers[p].fields, keys[i])
                     /\ \A j \in 1..(i - 1) :
                           ~Unexpected(providers[p].fields, keys[j])
         IN CallErr(path, p, "unexpected field", keys[i])
    ELSE CallOk(path, p, ValuesOf(keys))

\* Provider.CallInternal
ProviderCallInternal(p, nargs, kwargs) ==
    IF providers[p].init # "none"
    THEN LET result == callInit(providers[p].init, kwargs) IN
         IF ~result.dict
         THEN CallErr("init", p, "init must return a dict", "")
         ELSE IF \E i \in 1..Len(result.items) :
                    /\ ~result.items[i].str
                    /\ \A j \in 1..(i - 1) :
                          /\ result.items[j].str
                          /\ ~Unexpected(providers[p].fields,
                                         result.items[j].key)
         THEN CallErr("init", p, "init returned dict with non-string key", "")
         ELSE buildValues("init", p,
                          [i \in 1..Len(result.items) |-> result.items[i].key])
    ELSE IF nargs > 0
    THEN CallErr("plain", p, "unexpected positional arguments", "")
    ELSE buildValues("plain", p, kwargs)

\* rawProviderConstructor.CallInternal
RawCallInternal(p, nargs, kwargs) ==
    IF nargs > 0
    THEN CallErr("raw", p, "unexpected positional arguments", "")
    ELSE buildValues("raw", p, kwargs)

\* A constructor call returned r: the instance exists if there is one.
Called(r) ==
    /\ lastCall' = <<r>>
    /\ instances' = IF r.ok
                    THEN instances \cup {[provider |-> r.provider,
                                          values |-> r.values]}
                    ELSE instances
    /\ UNCHANGED <<providers, notProviderVars>>

\* provider(fields = fields, init = init) is called.
Provider(fields, init) ==
    /\ Len(providers) < MaxProviders
    /\ providers' = Append(providers,
                           NewProvider(fieldList(fields), init, fields))
    /\ lastCall' = << >>
    /\ UNCHANGED <<instances, notProviderVars>>

\* The provider p is called.
CallProvider(p, nargs, kwargs) ==
    /\ Cardinality(instances) < MaxInstances
    /\ Called(ProviderCallInternal(p, nargs, kwargs))

\* The raw constructor of p, returned by provider() when init is given, is
\* called.
CallRaw(p, nargs, kwargs) ==
    /\ Cardinality(instances) < MaxInstances
    /\ providers[p].init # "none"
    /\ Called(RawCallInternal(p, nargs, kwargs))

ProviderNext ==
    \/ \E fields \in FieldsArgs : \E init \in InitFns : Provider(fields, init)
    \/ \E p \in DOMAIN providers : \E nargs \in 0..1 :
       \E kwargs \in KwargsArgs : CallProvider(p, nargs, kwargs)
    \/ \E p \in DOMAIN providers : \E nargs \in 0..1 :
       \E kwargs \in KwargsArgs : CallRaw(p, nargs, kwargs)

ProviderSpec == Init /\ [][ProviderNext]_vars

\* C12: every instance of a provider created with a fields argument carries
\* only field names of that argument.
C12_InstanceKeysAreDeclared ==
    \A inst \in instances :
        LET arg == providers[inst.provider].arg IN
        arg # None =>
            DOMAIN inst.values \subseteq { arg[i] : i \in 1..Len(arg) }

---------------------------------------------------------------------------
(* Rule classes: rule(), SetName, Freeze, the rule call and the BUILD and  *)
(* .bzl evaluation around them.                                            *)

MaxRules == 2

\* A starlark value by its type and content.
Val(type, v) == [type |-> type, v |-> v]
NoneVal == Val("NoneType", "None")

\* An attribute descriptor; default is << >> for a nil Default.
AttrDescriptor(type, mandatory, default) ==
    [type |-> type, mandatory |-> mandatory, default |-> default]

\* addImplicitAttributes: the attributes every rule class of package types
\* has.
ImplicitAttrs ==
    [a \in {"name", "visibility", "tags", "testonly", "deprecation",
            "features"} |->
        CASE a = "name"        -> AttrDescriptor("string", TRUE, << >>)
          [] a = "visibility"  -> AttrDescriptor("label_list", FALSE, <<NoneVal>>)
          [] a = "tags"        -> AttrDescriptor("string_list", FALSE,
                                                 <<Val("list", "[]")>>)
          [] a = "testonly"    -> AttrDescriptor("bool", FALSE,
                                                 <<Val("bool", "False")>>)
          [] a = "deprecation" -> AttrDescriptor("string", FALSE, <<NoneVal>>)
          [] a = "features"    -> AttrDescriptor("string_list", FALSE,
                                                 <<Val("list", "[]")>>)]

\* The attrs arguments of rule(): none, and a label list "srcs".
AttrsArgs ==
    { << >>, [a \in {"srcs"} |-> AttrDescriptor("label_list", FALSE, << >>)] }

\* The map m with the entries of n that m lacks.
WithMissing(m, n) ==
    [k \in DOMAIN m \cup DOMAIN n |-> IF k \in DOMAIN m THEN m[k] ELSE n[k]]

\* NewRuleClass of package types, and the RuleClass literal of package
\* builtins, which has no exported field: its name says whether it was
\* exported.
NewRuleClass(name, attrs) ==
    [pkg |-> "types", name |-> name, exported |-> FALSE, frozen |-> FALSE,
     attrs |-> WithMissing(attrs, ImplicitAttrs)]
BuiltinsRuleClass(attrs) ==
    [pkg |-> "builtins", name |-> "", exported |-> FALSE, frozen |-> FALSE,
     attrs |-> attrs]

\* The export check of the rule calls: package types tests the exported
\* flag, package builtins the name.
RuleNotExportedNever(rc) == FALSE

RuleNotExported(rc) == IF rc.pkg = "types" THEN ~rc.exported ELSE rc.name = ""

\* The keyword arguments of a rule call, in call order.
Kw(key, value) == [key |-> key, value |-> value]
RuleKwargs ==
    { << >>,
      <<Kw("name", Val("string", "t1"))>>,
      <<Kw("name", Val("string", "t2"))>>,
      <<Kw("name", Val("string", "t1")), Kw("srcs", Val("list", "[a.c]"))>>,
      <<Kw("name", Val("int", "5"))>>,
      <<Kw("name", Val("string", "t2")), Kw("bogus", Val("int", "1"))>> }

\* validateAttrValue: whether the value is rejected.
validateAttrValue(attr, value) ==
    IF value = NoneVal THEN attr.mandatory
    ELSE CASE attr.type \in {"string", "output"} -> value.type # "string"
           [] attr.type = "int"    -> value.type # "int"
           [] attr.type = "bool"   -> value.type # "bool"
           [] attr.type = "label"  -> value.type \notin {"string", "Label"}
           [] attr.type \in {"label_list", "string_list", "output_list"} ->
                  value.type \notin {"list", "tuple"}
           [] attr.type = "string_dict" -> value.type # "dict"
           [] OTHER -> FALSE

\* What a rule call returns: an error, or the value of the call expression
\* (the instance for package types, None for package builtins).
RuleErr(rc, err, key) ==
    [op |-> "call", rc |-> rc, ok |-> FALSE, err |-> err, key |-> key,
     value |-> NoneVal]
RuleOk(rc, value) ==
    [op |-> "call", rc |-> rc, ok |-> TRUE, err |-> "", key |-> "",
     value |-> value]

\* RuleInstance
RuleInstance(rc, name, attrValues) ==
    [type |-> "RuleInstance", ruleClass |-> rc, name |-> name,
     attrValues |-> attrValues]

\* The first keyword, in call order, that the kwargs loop rejects, with the
\* error it returns; 0 if there is none.
BadKwarg(attrs, kwargs) ==
    IF \E i \in 1..Len(kwargs) :
          \/ kwargs[i].key \notin DOMAIN attrs
          \/ validateAttrValue(attrs[kwargs[i].key], kwargs[i].value)
    THEN CHOOSE i \in 1..Len(kwargs) :
            /\ \/ kwargs[i].key \notin DOMAIN attrs
               \/ validateAttrValue(attrs[kwargs[i].key], kwargs[i].value)
            /\ \A j \in 1..(i - 1) :
                  /\ kwargs[j].key \in DOMAIN attrs
                  /\ ~validateAttrValue(attrs[kwargs[j].key], kwargs[j].value)
    ELSE 0

\* The attribute values of the call: the keywords, and the defaults of the
\* attributes not provided.
AttrValues(attrs, kwargs) ==
    LET provided == { kwargs[i].key : i \in 1..Len(kwargs) }
        defaulted == { a \in DOMAIN attrs \ provided : attrs[a].default # << >> }
    IN [a \in provided \cup defaulted |->
           IF a \in provided
           THEN kwargs[CHOOSE i \in 1..Len(kwargs) : kwargs[i].key = a].value
           ELSE attrs[a].default[1]]

\* RuleClass.CallInternal of package types, on the rule class rc (its index
\* i in ruleClasses).
TypesCallInternal(i, rc, nargs, kwargs) ==
    IF nargs > 0 THEN RuleErr(i, "unexpected positional arguments", "")
    ELSE IF RuleNotExported(rc)
    THEN RuleErr(i, "rule has not been exported", "")
    ELSE LET bad == BadKwarg(rc.attrs, kwargs) IN
         IF bad # 0
         THEN IF kwargs[bad].key \notin DOMAIN rc.attrs
              THEN RuleErr(i, "unexpected attribute", kwargs[bad].key)
              ELSE RuleErr(i, "attribute", kwargs[bad].key)
         ELSE IF \E a \in DOMAIN rc.attrs :
                    /\ rc.attrs[a].mandatory
                    /\ \A k \in 1..Len(kwargs) : kwargs[k].key # a
         THEN RuleErr(i, "missing mandatory attribute",
                      CHOOSE a \in DOMAIN rc.attrs :
                          /\ rc.attrs[a].mandatory
                          /\ \A k \in 1..Len(kwargs) : kwargs[k].key # a)
         ELSE LET attrValues == AttrValues(rc.attrs, kwargs) IN
              IF "name" \notin DOMAIN attrValues
              THEN RuleErr(i, "missing mandatory attribute 'name'", "")
              ELSE IF attrValues["name"].type # "string"
              THEN RuleErr(i, "attribute 'name' must be a string", "")
              ELSE RuleOk(i, RuleInstance(i, attrValues["name"].v, attrValues))

\* The attributes the rule call of package builtins always allows.
BuiltinAttrNames ==
    {"name", "visibility", "tags", "testonly", "deprecation", "features"}

\* RuleClass.CallInternal of package builtins.
BuiltinsCallInternal(i, rc, nargs, kwargs) ==
    IF nargs > 0 THEN RuleErr(i, "unexpected positional arguments", "")
    ELSE IF RuleNotExported(rc)
    THEN RuleErr(i, "rule has not been exported", "")
    ELSE IF \A k \in 1..Len(kwargs) : kwargs[k].key # "name"
    THEN RuleErr(i, "missing required attribute 'name'", "")
    ELSE IF \E k \in 1..Len(kwargs) :
               /\ kwargs[k].key \notin BuiltinAttrNames
               /\ kwargs[k].key \notin DOMAIN rc.attrs
    THEN RuleErr(i, "unexpected attribute", "")
    ELSE RuleOk(i, NoneVal)

\* The rule class i is called.
CallInternal(i, nargs, kwargs) ==
    IF ruleClasses[i].pkg = "types"
    THEN TypesCallInternal(i, ruleClasses[i], nargs, kwargs)
    ELSE BuiltinsCallInternal(i, ruleClasses[i], nargs, kwargs)

\* RegisterTarget on a thread that has the target map and no Package: what
\* it returns and the map afterwards.
RegisterTargetIn(targets, target) ==
    IF target.name \in DOMAIN targets
    THEN [ok |-> FALSE, err |-> "duplicate target name", targets |-> targets]
    ELSE [ok |-> TRUE, err |-> "",
          targets |-> [n \in DOMAIN targets \cup {target.name} |->
                          IF n = target.name THEN target ELSE targets[n]]]

\* The names SetName is called with.
RuleNames == { "", "my_rule" }

\* rule() of package types is called.
RuleBuiltin(attrs) ==
    /\ Len(ruleClasses) < MaxRules
    /\ ruleClasses' = Append(ruleClasses, NewRuleClass("", attrs))
    /\ lastRule' = << >>
    /\ UNCHANGED <<bzlGlobals, build, notRuleVars>>

\* rule() of package builtins is called.
Rule(attrs) ==
    /\ Len(ruleClasses) < MaxRules
    /\ ruleClasses' = Append(ruleClasses, BuiltinsRuleClass(attrs))
    /\ lastRule' = << >>
    /\ UNCHANGED <<bzlGlobals, build, notRuleVars>>

\* rc.SetName(name)
SetName(i, name) ==
    /\ ruleClasses' = [ruleClasses EXCEPT
           ![i] = IF @.pkg = "types"
                  THEN [@ EXCEPT !.name = name, !.exported = TRUE]
                  ELSE [@ EXCEPT !.name = name]]
    /\ lastRule' = <<[op |-> "export", rc |-> i, name |-> name]>>
    /\ UNCHANGED <<bzlGlobals, build, notRuleVars>>

\* rc.Freeze()
Freeze(i) ==
    /\ ruleClasses' = [ruleClasses EXCEPT ![i].frozen = TRUE]
    /\ lastRule' = << >>
    /\ UNCHANGED <<bzlGlobals, build, notRuleVars>>

\* EvalBzl of a module whose top level is ident = rule(attrs = attrs):
\* ExecFile runs rule() of package types, binds the global and freezes the
\* globals; EvalBzl returns them.
EvalBzl(ident, attrs) ==
    /\ Len(ruleClasses) < MaxRules
    /\ ruleClasses' = Append(ruleClasses,
                             [NewRuleClass("", attrs) EXCEPT !.frozen = TRUE])
    /\ bzlGlobals' = [x \in {ident} |-> Len(ruleClasses) + 1]
    /\ lastRule' = << >>
    /\ UNCHANGED <<build, notRuleVars>>

\* EvalBuild starts: the thread gets an empty target map and the BUILD file
\* starts to execute.
EvalBuild ==
    /\ build.phase # "running"
    /\ build' = [phase |-> "running", targets |-> << >>]
    /\ lastRule' = << >>
    /\ UNCHANGED <<ruleClasses, bzlGlobals, notRuleVars>>

\* The BUILD file calls the rule class i.
RuleCall(i, nargs, kwargs) ==
    /\ build.phase = "running"
    /\ \E r \in {CallInternal(i, nargs, kwargs)} :
          lastRule' = <<[op |-> "call", rc |-> i, class |-> ruleClasses[i],
                         nargs |-> nargs, kwargs |-> kwargs,
                         ok |-> r.ok, err |-> r.err, key |-> r.key,
                         value |-> r.value, before |-> build.targets]>>
    /\ UNCHANGED <<ruleClasses, bzlGlobals, build, notRuleVars>>

\* RegisterTarget(thread, target) is called with the instance the last rule
\* call returned.
RegisterTarget ==
    /\ build.phase = "running"
    /\ lastRule # << >>
    /\ lastRule[1].op = "call"
    /\ lastRule[1].ok
    /\ lastRule[1].value # NoneVal
    /\ \E r \in {RegisterTargetIn(build.targets, lastRule[1].value)} :
          /\ build' = [build EXCEPT !.targets = r.targets]
          /\ lastRule' = <<[op |-> "register", ok |-> r.ok, err |-> r.err,
                            target |-> lastRule[1].value,
                            before |-> build.targets]>>
    /\ UNCHANGED <<ruleClasses, bzlGlobals, notRuleVars>>

\* The BUILD file has executed: EvalBuild returns the target map.
EvalBuildReturn ==
    /\ build.phase = "running"
    /\ build' = [build EXCEPT !.phase = "done"]
    /\ lastRule' = << >>
    /\ UNCHANGED <<ruleClasses, bzlGlobals, notRuleVars>>

RuleNext ==
    \/ \E attrs \in AttrsArgs : RuleBuiltin(attrs)
    \/ \E attrs \in AttrsArgs : Rule(attrs)
    \/ \E i \in DOMAIN ruleClasses : \E name \in RuleNames : SetName(i, name)
    \/ \E i \in DOMAIN ruleClasses : Freeze(i)
    \/ \E attrs \in AttrsArgs : EvalBzl("my_rule", attrs)
    \/ EvalBuild
    \/ \E i \in DOMAIN ruleClasses : \E nargs \in 0..1 :
       \E kwargs \in RuleKwargs : RuleCall(i, nargs, kwargs)
    \/ RegisterTarget
    \/ EvalBuildReturn

RuleSpec == Init /\ [][RuleNext]_vars

\* The last operation was a call of a rule class.
WasRuleCall == lastRule # << >> /\ lastRule[1].op = "call"

\* The rule class had not been exported: package types keeps a flag set by
\* SetName, package builtins has the name only.
Unexported(rc) ==
    \/ rc.pkg = "types" /\ ~rc.exported
    \/ rc.pkg = "builtins" /\ rc.name = ""

\* C13: after a successful call of a rule class in the BUILD file the target
\* map of the evaluation has an entry under the name given, of that rule
\* class, with the attribute values supplied.
C13_CallRegistersTarget ==
    (WasRuleCall /\ lastRule[1].ok) =>
        \A k \in 1..Len(lastRule[1].kwargs) :
            lastRule[1].kwargs[k].key = "name" =>
                LET name == lastRule[1].kwargs[k].value.v IN
                /\ name \in DOMAIN build.targets
                /\ build.targets[name].ruleClass = lastRule[1].rc
                /\ \A j \in 1..Len(lastRule[1].kwargs) :
                      LET kw == lastRule[1].kwargs[j] IN
                      /\ kw.key \in DOMAIN build.targets[name].attrValues
                      /\ build.targets[name].attrValues[kw.key] = kw.value

\* C15 as claimed: a call of a rule class that has not been exported fails
\* with the error 'rule has not been exported', returns no instance and
\* leaves the target map as it was.
C15_UnexportedCallFails ==
    (WasRuleCall /\ Unexported(lastRule[1].class)) =>
        /\ ~lastRule[1].ok
        /\ lastRule[1].err = "rule has not been exported"
        /\ lastRule[1].value = NoneVal
        /\ build.targets = lastRule[1].before

\* C15 amended: a call of a rule class that has not been exported fails,
\* returns no instance and leaves the target map as it was; the error is
\* 'rule has not been exported' unless the call passes positional arguments,
\* which are rejected first with 'unexpected positional arguments'.
C15_UnexportedCallFailsAmended ==
    (WasRuleCall /\ Unexported(lastRule[1].class)) =>
        /\ ~lastRule[1].ok
        /\ lastRule[1].err = IF lastRule[1].nargs > 0
                             THEN "unexpected positional arguments"
                             ELSE "rule has not been exported"
        /\ lastRule[1].value = NoneVal
        /\ build.targets = lastRule[1].before

\* C15 witness: a rule class of package types that has not been exported was
\* called with a name and no positional argument, and the call failed.
C15_Witness ==
    /\ WasRuleCall
    /\ lastRule[1].class.pkg = "types"
    /\ ~lastRule[1].class.exported
    /\ lastRule[1].nargs = 0
    /\ lastRule[1].kwargs = <<Kw("name", Val("string", "t1"))>>
    /\ lastRule[1].err = "rule has not been exported"

\* C16: every rule class among the globals EvalBzl returned has been exported
\* under the identifier it is bound to.
C16_TopLevelValuesAreExported ==
    \A x \in DOMAIN bzlGlobals :
        /\ ruleClasses[bzlGlobals[x]].exported
        /\ ruleClasses[bzlGlobals[x]].name = x

\* C17: every rule class that has been exported has a name and is frozen.
C17_ExportedIsNamedAndFrozen ==
    \A i \in DOMAIN ruleClasses :
        (\/ ruleClasses[i].pkg = "types" /\ ruleClasses[i].exported
         \/ lastRule # << >> /\ lastRule[1].op = "export" /\ lastRule[1].rc = i)
            => /\ ruleClasses[i].name # ""
               /\ ruleClasses[i].frozen

---------------------------------------------------------------------------
(* The package: Package.AddTarget, PackageContext.AddRule and              *)
(* native.existing_rules().                                               *)

MaxViews == 2

\* The target names, the targets and the attribute maps registered.
TargetNames == { "t1", "t2" }
Targets == { "T1", "T2" }
KindKey   == <<"k", "i", "n", "d">>
NameKey   == <<"n", "a", "m", "e">>
SrcsKey   == <<"s", "r", "c", "s">>
HiddenKey == <<"_", "i", "m", "p", "l">>
RuleAttrMaps ==
    { [k \in {KindKey} |-> "rule1"],
      [k \in {KindKey, SrcsKey, HiddenKey} |-> "rule2"],
      [k \in {NameKey, SrcsKey, EmptyStr} |-> "v"] }

\* The map m with name bound to item.
Put(m, name, item) ==
    [n \in DOMAIN m \cup {name} |-> IF n = name THEN item ELSE m[n]]

\* Package.AddTarget: what it returns and Targets afterwards.
AddTarget(targets, name, target) ==
    IF name \in DOMAIN targets
    THEN [ok |-> FALSE, err |-> "duplicate target name", after |-> targets]
    ELSE [ok |-> TRUE, err |-> "", after |-> Put(targets, name, target)]

\* PackageContext.AddRule: Rules afterwards; it returns nothing.
AddRule(rules, name, attrs) ==
    [ok |-> TRUE, err |-> "",
     after |-> Put(IF rules.nil THEN << >> ELSE rules.map, name, attrs)]

\* existing_rules(): the view returned. A view that shares the context's
\* map instead of holding a copy shows what the context holds.
existingRulesShared(rules) ==
    [shared |-> TRUE, rules |-> NilMap]

existingRules(rules) ==
    IF rules.nil
    THEN [shared |-> FALSE, rules |-> NilMap]
    ELSE [shared |-> FALSE,
          rules |-> MadeMap([name \in DOMAIN rules.map |-> rules.map[name]])]

\* ExistingRulesView.sortedNames as a set: the names the view exposes when
\* the context holds rules.
ViewNames(view, rules) ==
    LET held == IF view.shared THEN rules ELSE view.rules IN
    IF held.nil THEN {} ELSE DOMAIN held.map

\* The characters of names, paths and patterns in ascending byte order.
UpperCase ==
    <<"A", "B", "C", "D", "E", "F", "G", "H", "I", "J", "K", "L", "M", "N",
      "O", "P", "Q", "R", "S", "T", "U", "V", "W", "X", "Y", "Z">>
LowerCase ==
    <<"a", "b", "c", "d", "e", "f", "g", "h", "i", "j", "k", "l", "m", "n",
      "o", "p", "q", "r", "s", "t", "u", "v", "w", "x", "y", "z">>
AsciiOrder ==
    <<"*", ".", "/", ":", "=", "?", "@">> \o UpperCase \o <<"_">> \o LowerCase
Byte(c) == CHOOSE i \in DOMAIN AsciiOrder : AsciiOrder[i] = c

\* The order of Go strings, which sort.Strings sorts by.
RECURSIVE StringLess(_, _)
StringLess(a, b) ==
    IF b = << >> THEN FALSE
    ELSE IF a = << >> THEN TRUE
    ELSE IF Head(a) # Head(b) THEN Byte(Head(a)) < Byte(Head(b))
    ELSE StringLess(Tail(a), Tail(b))

\* sort.Strings on the strings of the set S.
RECURSIVE SortStrings(_)
SortStrings(S) ==
    IF S = {} THEN << >>
    ELSE LET least == CHOOSE x \in S : \A y \in S \ {x} : StringLess(x, y)
         IN <<least>> \o SortStrings(S \ {least})

\* isPotentiallyExportableAttribute
isPotentiallyExportableAttribute(name) ==
    /\ Len(name) # 0
    /\ \/ Contains(LowerCase, Head(name))
       \/ Contains(UpperCase, Head(name))

\* PackageContext.GetRule: the attributes of the rule, nil when there is none.
GetRule(rules, name) ==
    IF rules.nil \/ name \notin DOMAIN rules.map THEN NilMap
    ELSE MadeMap(rules.map[name])

\* ExistingRuleView.Len
ViewLen(attrs) ==
    2 + Cardinality({ attrName \in DOMAIN attrs :
                        isPotentiallyExportableAttribute(attrName) })

\* ExistingRuleView.keys
ViewKeys(attrs) ==
    <<NameKey, KindKey>> \o
    SortStrings({ k \in DOMAIN attrs :
                    /\ isPotentiallyExportableAttribute(k)
                    /\ k # NameKey /\ k # KindKey })

\* native.existing_rule(name) is called: None when there is no such rule,
\* otherwise a view, of which the length and the keys are then taken.
existingRuleCall(name) ==
    /\ \E attrs \in {GetRule(ctxRules, name)} :
          lastView' =
              IF attrs.nil
              THEN <<[name |-> name, none |-> TRUE, attrs |-> << >>,
                      len |-> 0, keys |-> << >>]>>
              ELSE <<[name |-> name, none |-> FALSE, attrs |-> attrs.map,
                      len |-> ViewLen(attrs.map),
                      keys |-> ViewKeys(attrs.map)]>>
    /\ lastAdd' = << >>
    /\ UNCHANGED <<pkgTargets, ctxRules, views, notNativeVars>>

\* A PackageContext is set on the thread, its Rules nil or made.
NewPackageContext(rules) ==
    /\ ctxRules' = rules
    /\ lastAdd' = << >>
    /\ lastView' = << >>
    /\ UNCHANGED <<pkgTargets, views, notNativeVars>>

\* pkg.AddTarget(name, target) is called.
AddTargetCall(name, target) ==
    /\ \E r \in {AddTarget(pkgTargets, name, target)} :
          /\ pkgTargets' = r.after
          /\ lastAdd' = <<[op |-> "AddTarget", name |-> name, ok |-> r.ok,
                           err |-> r.err, before |-> pkgTargets,
                           after |-> r.after]>>
    /\ lastView' = << >>
    /\ UNCHANGED <<ctxRules, views, notNativeVars>>

\* ctx.AddRule(name, attrs) is called.
AddRuleCall(name, attrs) ==
    /\ \E r \in {AddRule(ctxRules, name, attrs)} :
          /\ ctxRules' = MadeMap(r.after)
          /\ lastAdd' = <<[op |-> "AddRule", name |-> name, ok |-> r.ok,
                           err |-> r.err,
                           before |-> IF ctxRules.nil THEN << >>
                                      ELSE ctxRules.map,
                           after |-> r.after]>>
    /\ lastView' = << >>
    /\ UNCHANGED <<pkgTargets, views, notNativeVars>>

\* native.existing_rules() is called.
existingRulesCall ==
    /\ Len(views) < MaxViews
    /\ views' = Append(views, existingRules(ctxRules))
    /\ lastAdd' = << >>
    /\ lastView' = << >>
    /\ UNCHANGED <<pkgTargets, ctxRules, notNativeVars>>

NativeNext ==
    \/ \E rules \in {NilMap, MadeMap(<< >>)} : NewPackageContext(rules)
    \/ \E name \in TargetNames : \E target \in Targets :
           AddTargetCall(name, target)
    \/ \E name \in TargetNames : \E attrs \in RuleAttrMaps :
           AddRuleCall(name, attrs)
    \/ existingRulesCall
    \/ \E name \in TargetNames : existingRuleCall(name)

NativeSpec == Init /\ [][NativeNext]_vars

\* C14: a registration under a name that is registered already fails with
\* the duplicate target name error and leaves the registered targets as
\* they were.
C14_DuplicateNameIsRejected ==
    (lastAdd # << >> /\ lastAdd[1].name \in DOMAIN lastAdd[1].before) =>
        /\ ~lastAdd[1].ok
        /\ lastAdd[1].err = "duplicate target name"
        /\ lastAdd[1].after = lastAdd[1].before

\* C20: the names a view returned by existing_rules() exposes never change,
\* whatever is registered after the call.
C20_ViewIsSnapshot ==
    [][\A i \in DOMAIN views :
          ViewNames(views'[i], ctxRules') = ViewNames(views[i], ctxRules)]_vars

\* C20 witness: a rule has been registered that a view taken before does not
\* expose, the view exposing another.
C20_Witness ==
    \E i \in DOMAIN views :
        /\ ~ctxRules.nil
        /\ ViewNames(views[i], ctxRules) = {"t1"}
        /\ DOMAIN ctxRules.map = {"t1", "t2"}

---------------------------------------------------------------------------
(* Labels: parsing, rendering and comparison.                              *)

MaxLabelLen == 6   \* characters of a string handed to a label parse
MaxParses   == 1   \* label parses in one run

\* The characters label strings are made of, and the strings parsed.
LabelChars == {"@", "/", ":", ".", "a"}
LabelStrings == UNION {[1..n -> LabelChars] : n \in 0..MaxLabelLen}

\* The package contexts a relative parse runs in: the main repository's root
\* package and package p of repository r.
Contexts == { [repo |-> EmptyStr, pkg |-> EmptyStr],
              [repo |-> <<"r">>, pkg |-> <<"p">>] }

\* types.Label
Label(repo, pkg, name) == [repo |-> repo, pkg |-> pkg, name |-> name]

LabelOk(l)    == [ok |-> TRUE, err |-> "", label |-> l]
LabelErr(msg) == [ok |-> FALSE, err |-> msg,
                  label |-> Label(EmptyStr, EmptyStr, EmptyStr)]

\* ParseLabel: the repository name between the "@" and the "//" at idx.
RepoOfKeepingAt(s, idx) == Slice(s, 0, idx)
RepoOf(s, idx) == Slice(s, 1, idx)

\* ParseLabel: the package and the target name of what follows the "//".
SplitTarget(repo, s) ==
    IF LastIndex(s, Colon) # -1
    THEN Label(repo, Slice(s, 0, LastIndex(s, Colon)),
               SliceFrom(s, LastIndex(s, Colon) + 1))
    ELSE IF LastIndex(s, <<"/">>) # -1
         THEN Label(repo, s, SliceFrom(s, LastIndex(s, <<"/">>) + 1))
         ELSE Label(repo, s, s)

\* ParseLabel, after the repository prefix has been taken off.
ParseAfterRepo(repo, s) ==
    IF ~HasPrefix(s, Slashes)
    THEN LabelErr("must start with // or @")
    ELSE LabelOk(SplitTarget(repo, SliceFrom(s, 2)))

\* types.ParseLabel
ParseLabel(s) ==
    IF HasPrefix(s, At)
    THEN IF Index(s, Slashes) = -1
         THEN LabelErr("missing //")
         ELSE ParseAfterRepo(RepoOf(s, Index(s, Slashes)),
                             SliceFrom(s, Index(s, Slashes)))
    ELSE ParseAfterRepo(EmptyStr, s)

\* Label.String
LabelString(l) ==
    (IF l.repo # EmptyStr THEN At \o l.repo ELSE EmptyStr)
        \o Slashes \o l.pkg \o Colon \o l.name

\* Label.CompareSameType with the operator ==.
LabelEqual(l, y) == LabelString(l) = LabelString(y)

\* types.ParseLabelRelative
ParseLabelRelative(s, currentRepo, currentPkg) ==
    IF HasPrefix(s, At)
    THEN ParseLabel(s)
    ELSE IF HasPrefix(s, Slashes)
    THEN IF ~ParseLabel(s).ok
         THEN ParseLabel(s)
         ELSE IF ParseLabel(s).label.repo = EmptyStr
              THEN LabelOk([ParseLabel(s).label EXCEPT !.repo = currentRepo])
              ELSE ParseLabel(s)
    ELSE IF HasPrefix(s, Colon)
    THEN LabelOk(Label(currentRepo, currentPkg, SliceFrom(s, 1)))
    ELSE LabelOk(Label(currentRepo, currentPkg, s))

\* What a parse of s returned, as the run records it.
Parsed(fn, s, r) ==
    [fn |-> fn, input |-> s, ok |-> r.ok, err |-> r.err, label |-> r.label]

\* Label(s) in a .bzl file, ctx's label parsing: ParseLabel(s) is called.
ParseLabelCall(s) ==
    /\ Len(parsed) < MaxParses
    /\ \E r \in {ParseLabel(s)} :
           parsed' = Append(parsed, Parsed("ParseLabel", s, r))
    /\ UNCHANGED <<trip, notLabelVars>>

\* native's label resolution: ParseLabelRelative(s, repo, pkg) is called in
\* package context c.
ParseLabelRelativeCall(s, c) ==
    /\ Len(parsed) < MaxParses
    /\ \E r \in {ParseLabelRelative(s, c.repo, c.pkg)} :
           parsed' = Append(parsed, Parsed("ParseLabelRelative", s, r))
    /\ UNCHANGED <<trip, notLabelVars>>

\* The program renders a label it holds and parses the rendering.
RenderAndParse(i) ==
    /\ trip = << >>
    /\ parsed[i].ok
    /\ \E l \in {parsed[i].label} :
       \E r \in {ParseLabel(LabelString(l))} :
           trip' = <<[label |-> l, rendered |-> LabelString(l),
                      ok |-> r.ok, result |-> r.label]>>
    /\ UNCHANGED <<parsed, notLabelVars>>

\* The strings the run may hand to a parse: none once MaxParses are made.
ParseInputs == IF Len(parsed) < MaxParses THEN LabelStrings ELSE {}

LabelNext ==
    \/ \E s \in ParseInputs : ParseLabelCall(s)
    \/ \E s \in ParseInputs : \E c \in Contexts : ParseLabelRelativeCall(s, c)
    \/ \E i \in DOMAIN parsed : RenderAndParse(i)

LabelSpec == Init /\ [][LabelNext]_vars

\* C18: parsing the rendering of a label succeeds and yields a label equal
\* to it, under the equality of labels.
C18_ParseOfRenderIsEqual ==
    \A i \in DOMAIN trip :
        /\ trip[i].ok
        /\ LabelEqual(trip[i].result, trip[i].label)

\* C18 witness: a label with a repository, a package and a name has been
\* rendered and the rendering parsed.
C18_Witness ==
    \E i \in DOMAIN trip :
        /\ trip[i].label = Label(<<"a">>, <<"a">>, <<"a">>)
        /\ trip[i].rendered = <<"@", "a", "/", "/", "a", ":", "a">>

\* Whether the path s has a segment "..".
HasDotDotSegment(s) ==
    \E i \in 1..(Len(s) - 1) :
        /\ s[i] = "." /\ s[i + 1] = "."
        /\ (i = 1 \/ s[i - 1] = "/")
        /\ (i + 1 = Len(s) \/ s[i + 2] = "/")

\* C19: every label a parse, absolute or relative, returns without an error
\* has a non-empty name and no ".." segment in its package or its name.
C19_ParsedLabelsAreValid ==
    \A i \in DOMAIN parsed :
        parsed[i].ok =>
            /\ parsed[i].label.name # EmptyStr
            /\ ~HasDotDotSegment(parsed[i].label.pkg)
            /\ ~HasDotDotSegment(parsed[i].label.name)

---------------------------------------------------------------------------
(* Further properties of the loader.                                       *)

\* The labels on the load stack of the thread that executes the module of
\* frame f: loadFile has set it to append(parentStack, label).
ExecutingStack(f) == Append(f.stack, f.label)

\* The cache holds label with a load that has completed.
CachedDone(label) ==
    /\ label \in DOMAIN cache
    /\ entries[cache[label]].ready

\* C24: no label on the load stack of a thread that is executing a module
\* is in the cache with a completed load.
C24_StackedLabelIsNotDone ==
    \A t \in Threads : \A k \in DOMAIN frames[t] :
        frames[t][k].pc = "exec" =>
            \A i \in DOMAIN ExecutingStack(frames[t][k]) :
                ~CachedDone(ExecutingStack(frames[t][k])[i])

\* C25: every Load call returns in the end: a goroutine that is inside a
\* top-level Load call, and so inside every call nested in it, gets out.
C25_EveryLoadReturns ==
    \A t \in Threads : (frames[t] # << >>) ~> (frames[t] = << >>)

\* A step in which a Load call fails in the module resolution or in the
\* cycle check: a top-level call that leaves no active call behind, or a
\* call whose record says so.
FailedEarlyStep ==
    \/ calls' # calls /\ frames' = frames
    \/ \E t \in Threads :
           /\ ret'[t] # ret[t]
           /\ ret'[t].kind \in {"resolve", "cycle"}

\* C26: a Load call that fails in the module resolution or in the cycle
\* check leaves the cache and every entry as they were.
C26_EarlyFailureLeavesCache ==
    [][FailedEarlyStep => (cache' = cache /\ entries' = entries)]_vars

\* C26 witness: with an entry in the cache, a nested call has ended with a
\* CycleError and the top-level call before it had failed to resolve.
C26_Witness ==
    \E t \in Threads : \E u \in Threads :
        /\ ret[t].kind = "cycle"
        /\ ret[u].kind = "resolve"
        /\ DOMAIN cache # {}

---------------------------------------------------------------------------
(* Further properties of the depsets.                                      *)

\* The depsets nested in d, at any depth.
RECURSIVE Descendants(_)
Descendants(d) ==
    UNION { {d.transitive[i]} \cup Descendants(d.transitive[i]) :
              i \in 1..Len(d.transitive) }

\* Whether depset d holds an element, directly or through a nested depset.
RECURSIVE HoldsElement(_)
HoldsElement(d) ==
    \/ d.direct # << >>
    \/ \E i \in 1..Len(d.transitive) : HoldsElement(d.transitive[i])

\* C27: every non-empty depset nested at any depth in a constructed depset
\* has the order of that depset, or one of the two orders is the default.
C27_DescendantOrdersAreCompatible ==
    \A d \in pool : \A n \in Descendants(d) :
        HoldsElement(n) =>
            \/ n.order = d.order
            \/ n.order = OrderDefault
            \/ d.order = OrderDefault

---------------------------------------------------------------------------
(* Further properties of the package.                                      *)

\* C29: the length an existing_rule view reports is the number of keys it
\* iterates over.
C29_LenIsNumberOfKeys ==
    \A i \in DOMAIN lastView :
        ~lastView[i].none => lastView[i].len = Len(lastView[i].keys)

---------------------------------------------------------------------------
(* native.glob, native.subpackages and the glob of BUILD files.            *)

MaxGlobs == 1   \* glob() and subpackages() calls in one run

StarStar   == <<"*", "*">>
Slash      == <<"/">>
BuildNames == << <<"B", "U", "I", "L", "D", ".", "b", "a", "z", "e", "l">>,
                 <<"B", "U", "I", "L", "D">> >>

\* The directories of the file system: the directories files lie in.
DirsOf(fs) ==
    UNION { { SubSeq(f, 1, i - 1) : i \in { j \in 2..Len(f) : f[j] = "/" } } :
              f \in fs }

\* os.Stat(path) returns no error: the path names a file or a directory.
Exists(fs, path) == path \in fs \/ path \in DirsOf(fs)

\* info.IsDir()
IsDir(fs, path) == path \in DirsOf(fs)

\* DefaultBuildFileLocator.HasBuildFile
HasBuildFile(fs, dir) ==
    \E i \in DOMAIN BuildNames : Exists(fs, Join(<<dir, BuildNames[i]>>))

\* filepath.Rel(base, path) for a path that is base or lies below it.
Rel(base, path) ==
    IF path = base THEN <<".">> ELSE SliceFrom(path, Len(base) + 1)

\* filepath.Base for a path that does not end in a separator.
Base(path) == SliceFrom(path, LastIndex(path, Slash) + 1)

\* filepath.Match for patterns of literal characters and "*", which stands
\* for any sequence of characters other than the separator.
RECURSIVE Match(_, _)
Match(pattern, name) ==
    IF pattern = << >> THEN name = << >>
    ELSE IF Head(pattern) = "*"
    THEN \E k \in 0..Len(name) :
            /\ \A j \in 1..k : name[j] # "/"
            /\ Match(Tail(pattern), SubSeq(name, k + 1, Len(name)))
    ELSE /\ name # << >>
         /\ Head(name) = Head(pattern)
         /\ Match(Tail(pattern), Tail(name))

\* filepath.Glob: the existing paths that match the pattern segment by
\* segment.
Glob(fs, pattern) == { q \in fs \cup DirsOf(fs) : Match(pattern, q) }

\* validateGlobPattern: the error, "" when the pattern is accepted.
validateGlobPattern(pattern) ==
    IF Index(pattern, <<"?">>) # -1 THEN "forbidden '?' wildcard"
    ELSE IF Index(pattern, <<".", ".">>) # -1 THEN "forbidden '..' reference"
    ELSE IF HasPrefix(pattern, Slash) THEN "cannot be absolute"
    ELSE ""

\* strings.TrimSuffix and strings.TrimPrefix
TrimSuffix(x, suffix) ==
    IF HasSuffix(x, suffix) THEN Slice(x, 0, Len(x) - Len(suffix)) ELSE x
TrimPrefix(x, prefix) ==
    IF HasPrefix(x, prefix) THEN SliceFrom(x, Len(prefix)) ELSE x

\* filepath.Walk(startDir): whether the walk calls the function on path,
\* given that the function returns SkipDir for the directories in skipped.
Walked(fs, startDir, path, skipped) ==
    /\ Exists(fs, startDir)
    /\ Exists(fs, path)
    /\ path = startDir \/ HasPrefix(path, startDir \o Slash)
    /\ \A q \in skipped : ~HasPrefix(path, q \o Slash)

\* matchRecursivePattern: the directories of the walk at which the function
\* returns SkipDir.
SkippedDirs(fs, startDir) ==
    { q \in DirsOf(fs) :
        /\ q = startDir \/ HasPrefix(q, startDir \o Slash)
        /\ Rel(PackageDir, q) # <<".">>
        /\ HasBuildFile(fs, q)
        /\ q # startDir }

\* matchRecursivePattern
matchRecursivePattern(fs, pattern, includeDirs) ==
    LET idx      == Index(pattern, StarStar)
        prefix   == TrimSuffix(Slice(pattern, 0, idx), Slash)
        suffix   == TrimPrefix(SliceFrom(pattern, idx + 2), Slash)
        startDir == IF prefix # EmptyStr THEN Join(<<PackageDir, prefix>>)
                    ELSE PackageDir
        skipped  == SkippedDirs(fs, startDir)
    IN { Rel(PackageDir, q) : q \in
           { path \in fs \cup DirsOf(fs) :
               /\ Walked(fs, startDir, path, skipped)
               /\ path # PackageDir
               /\ path \notin skipped
               /\ ~(IsDir(fs, path) /\ ~includeDirs)
               /\ suffix # EmptyStr => Match(suffix, Base(path)) } }

\* matchPattern
matchPattern(fs, pattern, includeDirs) ==
    IF Index(pattern, StarStar) # -1
    THEN matchRecursivePattern(fs, pattern, includeDirs)
    ELSE { Rel(PackageDir, q) : q \in
             { abs \in Glob(fs, Join(<<PackageDir, pattern>>)) :
                 /\ IsDir(fs, abs) => (includeDirs /\ ~HasBuildFile(fs, abs))
                 /\ Rel(PackageDir, abs) # <<".">> } }

\* matchSubpackagePattern: with "**" the walk returns nil at a subpackage
\* it has found, so it goes on into it.
matchSubpackagePattern(fs, pattern) ==
    IF Index(pattern, StarStar) # -1
    THEN { Rel(PackageDir, q) : q \in
             { path \in DirsOf(fs) :
                 /\ Walked(fs, PackageDir, path, {})
                 /\ path # PackageDir
                 /\ HasBuildFile(fs, path) } }
    ELSE { Rel(PackageDir, q) : q \in
             { m \in Glob(fs, Join(<<PackageDir, pattern>>)) :
                 IsDir(fs, m) /\ HasBuildFile(fs, m) } }

\* The first error validateGlobPattern gives on the patterns, "" if none.
RECURSIVE validateAll(_)
validateAll(patterns) ==
    IF patterns = << >> THEN ""
    ELSE IF validateGlobPattern(Head(patterns)) # ""
    THEN validateGlobPattern(Head(patterns))
    ELSE validateAll(Tail(patterns))

\* executeGlob, the loop over the exclude patterns: delete(matches, f).
deleteAll(matches, found) == matches \ found

\* executeGlob: the matches as a set, since they are the keys of a map.
executeGlob(fs, include, exclude, includeDirs) ==
    IF validateAll(include \o exclude) # ""
    THEN [err |-> validateAll(include \o exclude), matches |-> {}]
    ELSE [err |-> "",
          matches |->
            deleteAll(
              UNION { matchPattern(fs, include[i], includeDirs) :
                        i \in DOMAIN include },
              UNION { matchPattern(fs, exclude[i], includeDirs) :
                        i \in DOMAIN exclude })]

\* executeSubpackagesGlob
executeSubpackagesGlob(fs, include, exclude) ==
    IF validateAll(include \o exclude) # ""
    THEN [err |-> validateAll(include \o exclude), matches |-> {}]
    ELSE [err |-> "",
          matches |->
            UNION { matchSubpackagePattern(fs, include[i]) :
                      i \in DOMAIN include }
            \ UNION { matchSubpackagePattern(fs, exclude[i]) :
                        i \in DOMAIN exclude }]

\* glob, the conversion of the sorted matches to the list returned.
Disambiguate(m) == IF HasPrefix(m, At) THEN Colon \o m ELSE m

\* native.glob(include, exclude, exclude_directories, allow_empty)
glob(fs, include, exclude, includeDirs, allowEmpty) ==
    LET g == executeGlob(fs, include, exclude, includeDirs) IN
    IF g.err # "" THEN [ok |-> FALSE, err |-> g.err, result |-> << >>]
    ELSE IF ~allowEmpty /\ g.matches = {}
    THEN [ok |-> FALSE, err |-> "matched no files", result |-> << >>]
    ELSE [ok |-> TRUE, err |-> "",
          result |-> [i \in DOMAIN SortStrings(g.matches) |->
                         Disambiguate(SortStrings(g.matches)[i])]]

\* native.subpackages(include, exclude, allow_empty)
subpackages(fs, include, exclude, allowEmpty) ==
    LET g == executeSubpackagesGlob(fs, include, exclude) IN
    IF g.err # "" THEN [ok |-> FALSE, err |-> g.err, result |-> << >>]
    ELSE IF ~allowEmpty /\ g.matches = {}
    THEN [ok |-> FALSE, err |-> "matched no subpackages", result |-> << >>]
    ELSE [ok |-> TRUE, err |-> "", result |-> SortStrings(g.matches)]

\* builtins.GlobBuiltin, the glob predeclared in BUILD files; given tells
\* whether the call passes include.
GlobBuiltin(fs, given, include, exclude) ==
    IF ~given
    THEN [ok |-> FALSE, err |-> "missing required argument 'include'",
          result |-> << >>]
    ELSE [ok |-> TRUE, err |-> "", result |-> << >>]

\* The patterns passed to the calls, and the lists of them.
IncludePatterns ==
    { <<"*">>, StarStar, <<"s", "/", "*", "*">>, <<"*", "*", "/", "a">>,
      <<"s", "/", "a">>, <<"a", "?">> }
ExcludePatterns ==
    { <<"a">>, <<"*", "*", "/", "a">>, <<".", ".">> }
IncludeLists == SeqsUpTo(IncludePatterns, 2)
ExcludeLists == SeqsUpTo(ExcludePatterns, 1)

\* The directories in which a BUILD file may be written.
SubDirs == { <<"/", "p", "/", "s">>, <<"/", "p", "/", "s", "/", "t">> }

\* What a call of fn returned, as the run records it.
Globbed(fn, include, exclude, includeDirs, r) ==
    <<[fn |-> fn, include |-> include, exclude |-> exclude,
       includeDirs |-> includeDirs, ok |-> r.ok, err |-> r.err,
       result |-> r.result]>>

\* A BUILD or BUILD.bazel file is written into a directory.
WriteBuildFile(dir, i) ==
    /\ Join(<<dir, BuildNames[i]>>) \notin files
    /\ files' = files \cup {Join(<<dir, BuildNames[i]>>)}
    /\ lastGlob' = << >>
    /\ UNCHANGED <<globs, notGlobVars>>

\* native.glob is called.
globCall(include, exclude, includeDirs, allowEmpty) ==
    /\ lastGlob' = Globbed("native.glob", include, exclude, includeDirs,
                           glob(files, include, exclude, includeDirs,
                                allowEmpty))
    /\ globs' = globs + 1
    /\ UNCHANGED <<files, notGlobVars>>

\* native.subpackages is called.
subpackagesCall(include, exclude, allowEmpty) ==
    /\ lastGlob' = Globbed("native.subpackages", include, exclude, TRUE,
                           subpackages(files, include, exclude, allowEmpty))
    /\ globs' = globs + 1
    /\ UNCHANGED <<files, notGlobVars>>

\* A BUILD file calls glob: GlobBuiltin runs.
GlobBuiltinCall(given, include, exclude) ==
    /\ lastGlob' = Globbed("glob", include, exclude, FALSE,
                           GlobBuiltin(files, given, include, exclude))
    /\ globs' = globs + 1
    /\ UNCHANGED <<files, notGlobVars>>

\* The lists a call may be made with: none once MaxGlobs calls are made.
IncludeArgs == IF globs < MaxGlobs THEN IncludeLists ELSE {}

GlobNext ==
    \/ \E dir \in SubDirs : \E i \in DOMAIN BuildNames : WriteBuildFile(dir, i)
    \/ \E include \in IncludeArgs : \E exclude \in ExcludeLists :
       \E includeDirs \in BOOLEAN : \E allowEmpty \in BOOLEAN :
           globCall(include, exclude, includeDirs, allowEmpty)
    \/ \E include \in IncludeArgs : \E exclude \in ExcludeLists :
       \E allowEmpty \in BOOLEAN :
           subpackagesCall(include, exclude, allowEmpty)
    \/ \E include \in IncludeArgs : \E given \in BOOLEAN :
       \E exclude \in ExcludeLists :
           GlobBuiltinCall(given, IF given THEN include ELSE << >>, exclude)

GlobSpec == Init /\ [][GlobNext]_vars

\* The files of the package that a pattern of the list matches.
MatchedByAny(patterns, includeDirs) ==
    UNION { matchPattern(files, patterns[i], includeDirs) :
              i \in DOMAIN patterns }

\* Whether the list of strings is in ascending order without duplicates.
Ascending(list) ==
    \A i \in DOMAIN list : \A j \in DOMAIN list :
        i < j => StringLess(list[i], list[j])

\* C22: a glob call that succeeds returns the files matched by an include
\* pattern and by no exclude pattern, in ascending order without duplicates.
C22_GlobReturnsSortedDifference ==
    \A i \in DOMAIN lastGlob :
        (lastGlob[i].fn \in {"glob", "native.glob"} /\ lastGlob[i].ok) =>
            /\ Range(lastGlob[i].result) =
                   MatchedByAny(lastGlob[i].include, lastGlob[i].includeDirs)
                   \ MatchedByAny(lastGlob[i].exclude, lastGlob[i].includeDirs)
            /\ Ascending(lastGlob[i].result)

\* Whether the path, relative to the package directory, lies inside a
\* subpackage: in or below a directory under the package directory that
\* holds a BUILD or BUILD.bazel file.
InsideSubpackage(rel) ==
    \E q \in DirsOf(files) :
        /\ q # PackageDir
        /\ \E n \in DOMAIN BuildNames : (q \o Slash \o BuildNames[n]) \in files
        /\ \/ PackageDir \o Slash \o rel = q
           \/ HasPrefix(PackageDir \o Slash \o rel, q \o Slash)

\* C23: a glob whose include patterns all contain "**" returns no path that
\* lies inside a subpackage.
C23_RecursiveGlobStaysInPackage ==
    \A i \in DOMAIN lastGlob :
        ( /\ lastGlob[i].fn = "native.glob"
          /\ lastGlob[i].ok
          /\ \A k \in DOMAIN lastGlob[i].include :
                 Index(lastGlob[i].include[k], StarStar) # -1 ) =>
            \A k \in DOMAIN lastGlob[i].result :
                ~InsideSubpackage(lastGlob[i].result[k])

\* C28: no directory that subpackages returns lies inside another directory
\* that it returns.
C28_SubpackagesAreNotNested ==
    \A i \in DOMAIN lastGlob :
        (lastGlob[i].fn = "native.subpackages" /\ lastGlob[i].ok) =>
            \A k \in DOMAIN lastGlob[i].result :
            \A j \in DOMAIN lastGlob[i].result :
                ~HasPrefix(lastGlob[i].result[j],
                           lastGlob[i].result[k] \o Slash)

---------------------------------------------------------------------------
(* ctx.actions: the action factory and its log.                            *)

MaxActions == 2   \* actions declared on one factory

\* The starlark values passed as arguments: a File, a string, None and an
\* int; an inputs argument may also be a list holding the File and a content
\* argument an Args object.
FileO       == Val("File", "pkg/out")
StrS        == Val("string", "s")
IntV        == Val("int", "1")
ArgVals     == { FileO, StrS, NoneVal, IntV }
InputVals   == ArgVals \cup { Val("list", "pkg/out") }
ContentVals == ArgVals \cup { Val("Args", "") }

\* extractFiles
extractFiles(v) ==
    IF v.type \in {"File", "list"} THEN <<Val("File", v.v)>> ELSE << >>

\* &DeclaredAction{...} with the fields the operations set.
DeclaredAction(type, mnemonic, outputs, inputs, detail) ==
    [type |-> type, mnemonic |-> mnemonic, outputs |-> outputs,
     inputs |-> inputs, detail |-> detail]

\* What an operation returns: a nil error and the action it has built, an
\* error, or a panic of the Go runtime.
Built(action) == [ok |-> TRUE, err |-> "", made |-> <<action>>]
Refused(err)  == [ok |-> FALSE, err |-> err, made |-> << >>]
Returned      == [ok |-> TRUE, err |-> "", made |-> << >>]

\* The mnemonic an operation records: mnemonic.(starlark.String) panics on
\* a value that is neither None nor a string.
Mnemonic(default, mnemonic) ==
    IF mnemonic = NoneVal THEN default ELSE mnemonic.v

\* Actions.declareFile, declareDirectory and declareSymlink
declareFile(filename, sibling) ==
    IF filename.type # "string" THEN Refused("declare_file: got " \o filename.type)
    ELSE IF sibling # NoneVal /\ sibling.type # "File"
    THEN Refused("sibling must be a File")
    ELSE Returned

\* Actions.doNothing
doNothing(mnemonic, inputs) ==
    IF mnemonic.type # "string" THEN Refused("do_nothing: got " \o mnemonic.type)
    ELSE Built(DeclaredAction("do_nothing", mnemonic.v, << >>,
                              extractFiles(inputs), ""))

\* Actions.write
write(output, content, mnemonic) ==
    IF output.type # "File" THEN Refused("output must be a File")
    ELSE IF content.type \notin {"string", "Args"}
    THEN Refused("content must be a string or Args")
    ELSE IF mnemonic.type \notin {"NoneType", "string"}
    THEN Refused("panic: interface conversion")
    ELSE Built(DeclaredAction("write", Mnemonic("FileWrite", mnemonic),
                              <<output>>, << >>, content.v))

\* Actions.run
run(outputs, executable, mnemonic) ==
    IF executable.type \notin {"File", "string"}
    THEN Refused("executable must be a File or string")
    ELSE IF mnemonic.type \notin {"NoneType", "string"}
    THEN Refused("panic: interface conversion")
    ELSE Built(DeclaredAction("run", Mnemonic("Action", mnemonic),
                              extractFiles(outputs), << >>, executable.v))

\* Actions.runShell
runShell(outputs, command) ==
    IF command.type \notin {"string", "list"}
    THEN Refused("command must be a string")
    ELSE Built(DeclaredAction("run_shell", "Action", extractFiles(outputs),
                              << >>, command.v))

\* Actions.expandTemplate
expandTemplate(template, output) ==
    IF template.type # "File" THEN Refused("template must be a File")
    ELSE IF output.type # "File" THEN Refused("output must be a File")
    ELSE Built(DeclaredAction("expand_template", "TemplateExpansion",
                              <<output>>, <<template>>, ""))

\* Actions.symlink
symlink(output, targetFile, targetPath) ==
    IF output.type # "File" THEN Refused("output must be a File")
    ELSE IF (targetFile = NoneVal) = (targetPath = NoneVal)
    THEN Refused("exactly one of target_file or target_path is required")
    ELSE IF targetFile # NoneVal /\ targetFile.type # "File"
    THEN Refused("target_file must be a File")
    ELSE IF targetPath # NoneVal /\ targetPath.type # "string"
    THEN Refused("panic: interface conversion")
    ELSE Built(DeclaredAction("symlink", "Symlink", <<output>>,
                              IF targetFile # NoneVal THEN <<targetFile>>
                              ELSE << >>,
                              IF targetPath # NoneVal THEN targetPath.v
                              ELSE targetFile.v))

\* a.declared = append(a.declared, action)
putFirst(log, action) == <<action>> \o log

appendAction(log, action) == Append(log, action)

\* An operation named op of the factory has run and returned r.
Operated(op, r) ==
    /\ r.made # << >> => Len(declared) < MaxActions
    /\ declared' = IF r.made # << >> THEN appendAction(declared, r.made[1])
                   ELSE declared
    /\ lastOp' = <<[op |-> op, ok |-> r.ok, err |-> r.err, before |-> declared,
                    frozen |-> frozen.actions]>>

declareFileCall(filename, sibling) ==
    /\ \E r \in {declareFile(filename, sibling)} : Operated("declare_file", r)
    /\ UNCHANGED <<frozen, notActionVars>>

doNothingCall(mnemonic, inputs) ==
    /\ \E r \in {doNothing(mnemonic, inputs)} : Operated("do_nothing", r)
    /\ UNCHANGED <<frozen, notActionVars>>

writeCall(output, content, mnemonic) ==
    /\ \E r \in {write(output, content, mnemonic)} : Operated("write", r)
    /\ UNCHANGED <<frozen, notActionVars>>

runCall(outputs, executable, mnemonic) ==
    /\ \E r \in {run(outputs, executable, mnemonic)} : Operated("run", r)
    /\ UNCHANGED <<frozen, notActionVars>>

runShellCall(outputs, command) ==
    /\ \E r \in {runShell(outputs, command)} : Operated("run_shell", r)
    /\ UNCHANGED <<frozen, notActionVars>>

expandTemplateCall(template, output) ==
    /\ \E r \in {expandTemplate(template, output)} : Operated("expand_template", r)
    /\ UNCHANGED <<frozen, notActionVars>>

symlinkCall(output, targetFile, targetPath) ==
    /\ \E r \in {symlink(output, targetFile, targetPath)} : Operated("symlink", r)
    /\ UNCHANGED <<frozen, notActionVars>>

\* Ctx.Freeze: the ctx freezes its parts, the actions factory among them.
CtxFreeze ==
    /\ ~frozen.ctx
    /\ frozen' = [ctx |-> TRUE, actions |-> TRUE]
    /\ lastOp' = <<[op |-> "Ctx.Freeze", ok |-> TRUE, err |-> "",
                    before |-> declared, frozen |-> frozen.actions]>>
    /\ UNCHANGED <<declared, notActionVars>>

\* Actions.Freeze
ActionsFreeze ==
    /\ ~frozen.actions
    /\ frozen' = [frozen EXCEPT !.actions = TRUE]
    /\ lastOp' = <<[op |-> "Actions.Freeze", ok |-> TRUE, err |-> "",
                    before |-> declared, frozen |-> frozen.actions]>>
    /\ UNCHANGED <<declared, notActionVars>>

ActionNext ==
    \/ \E filename \in ArgVals : \E sibling \in ArgVals :
           declareFileCall(filename, sibling)
    \/ \E mnemonic \in ArgVals : \E inputs \in InputVals :
           doNothingCall(mnemonic, inputs)
    \/ \E output \in ArgVals : \E content \in ContentVals :
       \E mnemonic \in ArgVals :
           writeCall(output, content, mnemonic)
    \/ \E outputs \in ArgVals : \E executable \in ArgVals :
       \E mnemonic \in ArgVals :
           runCall(outputs, executable, mnemonic)
    \/ \E outputs \in ArgVals : \E command \in ArgVals :
           runShellCall(outputs, command)
    \/ \E template \in ArgVals : \E output \in ArgVals :
           expandTemplateCall(template, output)
    \/ \E output \in ArgVals : \E targetFile \in ArgVals :
       \E targetPath \in ArgVals :
           symlinkCall(output, targetFile, targetPath)
    \/ CtxFreeze
    \/ ActionsFreeze

ActionSpec == Init /\ [][ActionNext]_vars

\* The operations that create an action.
CreatingOps ==
    {"do_nothing", "write", "run", "run_shell", "expand_template", "symlink"}

\* C21: a step of the factory in which an action-creating operation succeeds
\* puts exactly one action, of the operation's type, behind the entries the
\* log had, and every other step leaves the log as it was.
C21_LogIsTheCallsInOrder ==
    [][ IF lastOp' # << >> /\ lastOp'[1].ok /\ lastOp'[1].op \in CreatingOps
        THEN /\ Len(declared') = Len(declared) + 1
             /\ SubSeq(declared', 1, Len(declared)) = declared
             /\ declared'[Len(declared')].type = lastOp'[1].op
        ELSE declared' = declared ]_vars

\* C21 witness: after a write and a run, in that order, declare_file has
\* succeeded and the log still holds the two actions.
C21_Witness ==
    /\ Len(declared) = 2
    /\ declared[1].type = "write"
    /\ declared[2].type = "run"
    /\ lastOp # << >>
    /\ lastOp[1].op = "declare_file"
    /\ lastOp[1].ok

\* C30: an operation on a frozen factory leaves the log as it was.
C30_FrozenLogIsUnchanged ==
    \A i \in DOMAIN lastOp :
        lastOp[i].frozen => declared = lastOp[i].before

=============================================================================
